---------------------------- MODULE Spec2Model ----------------------------
(***************************************************************************)
(* SnakeFlex (Sinamirshahi/snakeflex): the execution bridge of the web     *)
(* terminal server.  The model follows src/unnamed/part_000 (the V1.75     *)
(* server): SafeWebSocketConn (the outbound channel), websocketHandler     *)
(* (the read loop of one execution session), executePythonScript /         *)
(* handleIO (one bridge per "execute" request) and RateLimiter.            *)
(*                                                                         *)
(* Strings are sequences of characters, paths are sequences of components, *)
(* time is counted in minutes.                                             *)
(***************************************************************************)
EXTENDS Integers, Sequences, FiniteSets, TLC

(***************************************************************************)
(* Bounds of the model.  The two channel capacities are make(chan ..., 100)*)
(* and make(chan string, 10) in the source; the model keeps them as        *)
(* parameters and checks with small values so that "queue full" happens.   *)
(***************************************************************************)
MsgChanCap == 2
InputChanCap == 2
MaxChunks == 2
MaxInputs == 3
MaxPings == 1
MaxEnvSends == 4
MaxCloseCalls == 2
MaxCalls == 13
MaxShellMsgs == 2
MaxShellPings == 1
MaxShellChunks == 2
MaxTicks == 4
MaxQueries == 2
MaxFailures == 4
MaxLoginTicks == 2
MaxTokens == 2
MaxValidates == 3
MaxSessionTicks == 3
MaxRequests == 2
MaxMalformed == 1
MaxLogins == 4
\* Clock ticks per minute
Minute == 2

VARIABLES
    \* SafeWebSocketConn
    msgChan,        \* buffered chan Message: the queued messages, oldest first
    done,           \* TRUE once close(s.done) has run
    connClosed,     \* TRUE once s.conn.Close() has run
    sender,         \* the messageSender goroutine: "running" or "exited"
    delivered,      \* the messages WriteJSON wrote to the client, in order
    closeFault,     \* TRUE once a Close() call panicked (close of closed channel)
    closeCalls,     \* number of Close() calls made
    \* history of SendMessage calls
    enq,            \* the messages accepted into msgChan, in order
    dropped,        \* the messages SendMessage dropped
    nEnvSend,       \* SendMessage calls made by the free producer of SpecConn
    \* websocketHandler (the read loop of one execution session)
    handler,        \* "reading", "closed" (read error) or "panicked"
    currentInputChan, \* 0 (nil) or the bridge whose input queue is current
    nExec,          \* "execute" messages handled = bridges created
    nInput,         \* "input" messages handled
    nPing,          \* "ping" messages handled
    nPong,          \* "pong" messages handled
    nBad,           \* messages handled that failed to decode
    \* one bridge per "execute": executePythonScript + handleIO
    file,           \* msg.File, a relative path
    bstate,         \* "none", "starting", "failed", "running", "returned"
    inputChan,      \* the bridge's chan string (cap 10 in the source)
    inputClosed,    \* TRUE once close(inputChan) has run
    proc,           \* "none", "alive", "exited"
    waitErr,        \* what cmd.Wait() returns once the process has exited
    exitTask,       \* the four goroutines of handleIO: "none", "run", "done"
    inTask,
    outTask,
    errTask,
    nOut,           \* chunks read from stdout (or the pty)
    nErr,           \* chunks read from stderr
    stdinLog,       \* the strings written to the process's stdin (or the pty)
    stdinClosed,    \* TRUE once stdin.Close() has run (in pty mode: the pty)
    env,            \* the environment of the run: runtime.GOOS of the server, and
                    \* what the client and the processes do in it
    \* history
    emitted,        \* per bridge: the "error"/"completed" messages passed to SendMessage
    routed,         \* per bridge: the inputs the handler took while it was current
    execAt,         \* per bridge: nInput when its "execute" was handled
    \* RateLimiter
    attempts,       \* rl.attempts: identity -> AttemptRecord, NoRecord when absent
    now,            \* time.Now(), in ticks
    nTicks,         \* the number of times the clock has advanced
    rlRet,          \* the last call of RecordFailedAttempt and what it returned
    streak,         \* per identity: the calls of RecordFailedAttempt since it had
                    \* no record, and whether each came within the window of the
                    \* one before
    rlQuery,        \* the last call of IsBlocked and what it returned
    rlOp,           \* the last RateLimiter method that ran, and for whom
    \* SessionManager
    sessions,       \* sm.sessions: token -> expiry, for the tokens present
    nTokens,        \* the number of tokens CreateSession has returned
    createdAt,      \* history: when each token was created
    vcall,          \* per caller: its ValidateSession call, step by step: pc is
                    \* "idle", "rlocked" (RLock held), "expired" (about to
                    \* delete), "deleting" (inside delete), "returned", or
                    \* "fatal" (the runtime stopped the server in this call on
                    \* unsynchronised access to the map)
    nValidate,      \* the number of ValidateSession calls started
    \* the HTTP handlers
    loggedOut,      \* the tokens whose holder has requested /logout
    authRet,        \* the last request that went through requireAuth
    login,          \* per caller: its handleLogin request: pc is "idle", "passed"
                    \* (IsBlocked said no) or "served"
    \* shellWebsocketHandler (one shell session)
    shell           \* the client, the connection, the read loop, the output
                    \* goroutine, the shell process and its pty

connVars == <<msgChan, done, connClosed, sender, delivered, closeFault,
              closeCalls, enq, dropped, nEnvSend>>

handlerVars == <<handler, currentInputChan, nExec, nInput, nPing, nPong, nBad>>

bridgeVars == <<file, bstate, inputChan, inputClosed, proc, waitErr, exitTask,
                inTask, outTask, errTask, nOut, nErr, stdinLog, stdinClosed,
                env, emitted, routed, execAt>>

rlVars == <<attempts, now, nTicks, rlRet, streak, rlQuery, rlOp>>

\* the state behind the HTTP routes: sessions, logins and the shell session
authVars == <<sessions, nTokens, createdAt, vcall, nValidate, loggedOut, authRet,
              login, shell>>

vars == <<connVars, handlerVars, bridgeVars, rlVars, authVars>>

\* env and the state of the components an execution session leaves alone
restVars == <<env, rlVars, authVars>>

NL == "\n"

Range(s) == {s[i] : i \in 1..Len(s)}

(***************************************************************************)
(* SafeWebSocketConn                                                       *)
(***************************************************************************)

\* A producer that waits for room in the queue (no default branch).
SendMessageBlocking(msg) ==
    /\ Len(msgChan) < MsgChanCap
    /\ msgChan' = Append(msgChan, msg)
    /\ enq' = Append(enq, msg)
    /\ UNCHANGED dropped

\* A SendMessage that makes room at a full queue by discarding the oldest
\* queued message.
SendMessageDropOldest(msg) ==
    IF Len(msgChan) < MsgChanCap
    THEN /\ msgChan' = Append(msgChan, msg)
         /\ enq' = Append(enq, msg)
         /\ UNCHANGED dropped
    ELSE /\ msgChan' = Append(Tail(msgChan), msg)
         /\ enq' = Append(enq, msg)
         /\ dropped' = dropped \cup {Head(msgChan)}

\* select { case s.msgChan <- msg: default: log "dropping" }
SendMessage(msg) ==
    IF Len(msgChan) < MsgChanCap
    THEN /\ msgChan' = Append(msgChan, msg)
         /\ enq' = Append(enq, msg)
         /\ UNCHANGED dropped
    ELSE /\ dropped' = dropped \cup {msg}
         /\ UNCHANGED <<msgChan, enq>>

\* A sender that takes the newest queued message first.
SenderTakeNewest ==
    /\ sender = "running"
    /\ msgChan # <<>>
    /\ msgChan' = SubSeq(msgChan, 1, Len(msgChan) - 1)
    /\ IF connClosed
       THEN sender' = "exited" /\ UNCHANGED delivered
       ELSE delivered' = Append(delivered, msgChan[Len(msgChan)]) /\ UNCHANGED sender

\* messageSender, case msg := <-s.msgChan: WriteJSON under the mutex; a write
\* error (the connection is closed, or the peer is gone on a flaky network)
\* ends the goroutine and the message taken from the queue is lost.
SenderTake ==
    /\ sender = "running"
    /\ msgChan # <<>>
    /\ msgChan' = Tail(msgChan)
    /\ \E ok \in (IF connClosed THEN {FALSE} ELSE IF env.flaky THEN {TRUE, FALSE} ELSE {TRUE}) :
          IF ok
          THEN delivered' = Append(delivered, Head(msgChan)) /\ UNCHANGED sender
          ELSE sender' = "exited" /\ UNCHANGED delivered

\* messageSender, case <-s.done: return
SenderDone ==
    /\ sender = "running"
    /\ done
    /\ sender' = "exited"
    /\ UNCHANGED <<msgChan, delivered>>

\* A Close that closes the connection and leaves the done channel open.
CloseConnOnly ==
    /\ closeCalls' = closeCalls + 1
    /\ connClosed' = TRUE
    /\ UNCHANGED <<done, closeFault>>

\* Close(): close(s.done); s.conn.Close().  Closing a closed channel panics,
\* and the panic leaves the method before s.conn.Close().
Close ==
    /\ closeCalls' = closeCalls + 1
    /\ IF done
       THEN closeFault' = TRUE /\ UNCHANGED <<done, connClosed>>
       ELSE done' = TRUE /\ connClosed' = TRUE /\ UNCHANGED closeFault

(***************************************************************************)
(* Paths: validateAndResolvePath and the os.Stat check                     *)
(***************************************************************************)

DotDot == <<".", ".">>

\* ts.workingDir: the absolute path /w
workingDir == << <<"w">> >>

\* The files that exist on the server: /w/a and /w2/x
FileSystem == { << <<"w">>, <<"a">> >>, << <<"w", "2">>, <<"x">> >> }

\* The values of msg.File the client sends:
\* "", "a", "m", "../e/x", "../w2/x"
Targets == { <<>>,
             << <<"a">> >>,
             << <<"m">> >>,
             << DotDot, <<"e">>, <<"x">> >>,
             << DotDot, <<"w", "2">>, <<"x">> >> }

RECURSIVE Clean(_, _)
\* filepath.Clean on an absolute path: ".." removes the component before it
\* (and is dropped at the root).
Clean(stack, rest) ==
    IF rest = <<>> THEN stack
    ELSE IF Head(rest) = DotDot
         THEN Clean(IF stack = <<>> THEN <<>> ELSE SubSeq(stack, 1, Len(stack) - 1),
                    Tail(rest))
         ELSE Clean(Append(stack, Head(rest)), Tail(rest))

\* filepath.Join(ts.workingDir, relativePath), already absolute
JoinPath(dir, rel) == Clean(<<>>, dir \o rel)

RECURSIVE PathString(_)
\* The path as a string: "/" before every component
PathString(p) ==
    IF p = <<>> THEN <<>> ELSE <<"/">> \o Head(p) \o PathString(Tail(p))

\* strings.HasPrefix
HasPrefix(s, prefix) ==
    /\ Len(s) >= Len(prefix)
    /\ SubSeq(s, 1, Len(prefix)) = prefix

\* A check by path components instead of by characters.
validateByComponents(relativePath) ==
    IF relativePath = <<>>
    THEN [ok |-> TRUE, path |-> workingDir]
    ELSE LET absPath == JoinPath(workingDir, relativePath)
         IN  IF ~HasPrefix(absPath, workingDir)
             THEN [ok |-> FALSE, path |-> <<>>]
             ELSE [ok |-> TRUE, path |-> absPath]

\* validateAndResolvePath: the result and, when ok, the absolute path
validateAndResolvePath(relativePath) ==
    IF relativePath = <<>>
    THEN [ok |-> TRUE, path |-> workingDir]
    ELSE LET absPath == JoinPath(workingDir, relativePath)
         IN  IF ~HasPrefix(PathString(absPath), PathString(workingDir))
             THEN [ok |-> FALSE, path |-> <<>>]
             ELSE [ok |-> TRUE, path |-> absPath]

\* os.Stat(absPath) does not report "not exist"
Exists(absPath) == absPath \in FileSystem

(***************************************************************************)
(* Messages                                                                *)
(***************************************************************************)

\* The bridges a connection can have in the model: a first "execute" and one
\* that supersedes it.
Bridges == {1, 2}

\* A Message.  type and content are what goes on the wire; b (the bridge that
\* sent it, 0 for the handler) and n (its ordinal among the messages of that
\* type and bridge) identify the message in the history.
Msg(type, b, n, content) == [type |-> type, b |-> b, n |-> n, content |-> content]

\* What cmd.Wait() can return: nil, an *exec.ExitError carrying the exit code
\* (-1 when the process was ended by a signal), or another error.
WaitResults ==
    { [err |-> "nil", code |-> 0],
      [err |-> "ExitError", code |-> 3],
      [err |-> "ExitError", code |-> -1],
      [err |-> "other", code |-> 0] }

\* An exit code that is 0 whenever the error is not an ExitError.
exitCodeZeroDefault(err) ==
    IF err.err = "ExitError" THEN err.code ELSE 0

\* handleIO: exitCode := 0; ExitError -> ExitCode(); any other error -> -1
exitCode(err) ==
    IF err.err = "nil" THEN 0
    ELSE IF err.err = "ExitError" THEN err.code
    ELSE -1

\* fmt.Sprintf("Exit code: %d", exitCode)
CompletedContent(code) == <<"Exit code: ", code>>

\* An input forwarded without the line terminator.
inputLineRaw(input) == <<input>>

\* msg.Input + "\n"
inputLine(input) == <<input, NL>>

(***************************************************************************)
(* websocketHandler: the read loop                                         *)
(***************************************************************************)

\* The client identities (what getClientIP returns)
Identities == {"10.0.0.1", "10.0.0.2"}

NoRecord == [Count |-> -1]

\* time.Time{}: the zero time lies before every time the clock shows
ZeroTime == -1000000

\* The goroutines that may be inside ValidateSession at the same time
Callers == {1, 2}

\* A caller that is not inside ValidateSession
IdleCall == [pc |-> "idle", token |-> 0, at |-> 0, ret |-> FALSE, lo |-> FALSE]

\* A caller that is not inside handleLogin
IdleLogin == [pc |-> "idle", id |-> "", correct |-> FALSE, blocked |-> FALSE,
              compared |-> FALSE, response |-> "", token |-> 0]

connRest == <<done, connClosed, sender, delivered, closeFault, closeCalls, nEnvSend>>

\* A shell session after upgrader.Upgrade: the handler is about to start
\* the shell.  loop is the handler's position: "start", "read" (in
\* conn.ReadMessage), "pong" (in conn.WriteMessage of the pong reply), "wait"
\* (in cmd.Wait), "returned" or "panicked".  out is the output goroutine's
\* position: "none", "read" (in ptmx.Read), "write" (in conn.WriteMessage) or
\* "done".  fault is the outcome of overlapping writes to the connection.
ShellUpgraded ==
    [client |-> "connected", conn |-> "open", loop |-> "start", out |-> "none",
     proc |-> "none", ptmx |-> "none", avail |-> 0, produced |-> 0, frames |-> 0,
     pongs |-> 0, nMsg |-> 0, nPing |-> 0, nIn |-> 0, fault |-> "none"]

InitWith(E) ==
    /\ msgChan = <<>>
    /\ done = FALSE
    /\ connClosed = FALSE
    /\ sender = "running"
    /\ delivered = <<>>
    /\ closeFault = FALSE
    /\ closeCalls = 0
    /\ enq = <<>>
    /\ dropped = {}
    /\ nEnvSend = 0
    /\ handler = "reading"
    /\ currentInputChan = 0
    /\ nExec = 0
    /\ nInput = 0
    /\ nPing = 0
    /\ nPong = 0
    /\ nBad = 0
    /\ file = [b \in Bridges |-> <<>>]
    /\ bstate = [b \in Bridges |-> "none"]
    /\ inputChan = [b \in Bridges |-> <<>>]
    /\ inputClosed = [b \in Bridges |-> FALSE]
    /\ proc = [b \in Bridges |-> "none"]
    /\ waitErr = [b \in Bridges |-> [err |-> "nil", code |-> 0]]
    /\ exitTask = [b \in Bridges |-> "none"]
    /\ inTask = [b \in Bridges |-> "none"]
    /\ outTask = [b \in Bridges |-> "none"]
    /\ errTask = [b \in Bridges |-> "none"]
    /\ nOut = [b \in Bridges |-> 0]
    /\ nErr = [b \in Bridges |-> 0]
    /\ stdinLog = [b \in Bridges |-> <<>>]
    /\ stdinClosed = [b \in Bridges |-> FALSE]
    /\ env \in E
    /\ emitted = [b \in Bridges |-> <<>>]
    /\ routed = [b \in Bridges |-> <<>>]
    /\ execAt = [b \in Bridges |-> 0]
    /\ attempts = [id \in Identities |-> NoRecord]
    /\ now = 0
    /\ nTicks = 0
    /\ rlRet = [call |-> 0, id |-> "", locked |-> FALSE, duration |-> 0]
    /\ streak = [id \in Identities |-> [n |-> 0, close |-> TRUE]]
    /\ rlQuery = [call |-> 0, id |-> "", blocked |-> FALSE, remaining |-> 0]
    /\ rlOp = [op |-> "", id |-> ""]
    /\ sessions = <<>>
    /\ nTokens = 0
    /\ createdAt = <<>>
    /\ vcall = [c \in Callers |-> IdleCall]
    /\ nValidate = 0
    /\ loggedOut = {}
    /\ authRet = [n |-> 0, enabled |-> FALSE, path |-> <<>>, cookie |-> 0,
                  accepted |-> FALSE, ran |-> "none", redirected |-> FALSE]
    /\ login = [c \in Callers |-> IdleLogin]
    /\ shell = ShellUpgraded

\* A "ping" that also forgets the current input queue.
ClientPingDetach ==
    /\ handler = "reading"
    /\ nPing < env.pings
    /\ nPing' = nPing + 1
    /\ SendMessage(Msg("pong", 0, nPing + 1, <<>>))
    /\ currentInputChan' = 0
    /\ UNCHANGED <<connRest, handler, nExec, nInput, nPong, nBad,
                   bridgeVars, rlVars, authVars>>

\* case "ping": safeConn.SendMessage(Message{Type: "pong"})
ClientPing ==
    /\ handler = "reading"
    /\ nPing < env.pings
    /\ nPing' = nPing + 1
    /\ SendMessage(Msg("pong", 0, nPing + 1, <<>>))
    /\ UNCHANGED <<connRest, handler, currentInputChan, nExec, nInput, nPong, nBad,
                   bridgeVars, rlVars, authVars>>

\* case "pong": continue
ClientPong ==
    /\ handler = "reading"
    /\ nPong < env.pings
    /\ nPong' = nPong + 1
    /\ UNCHANGED <<connVars, handler, currentInputChan, nExec, nInput, nPing, nBad,
                   bridgeVars, rlVars, authVars>>

\* An "execute" that leaves the current input queue as it is.
ClientExecuteKeepCurrent(f) ==
    /\ handler = "reading"
    /\ nExec < env.bridges
    /\ nExec' = nExec + 1
    /\ currentInputChan' = IF currentInputChan = 0 THEN nExec + 1 ELSE currentInputChan
    /\ file' = [file EXCEPT ![nExec + 1] = f]
    /\ bstate' = [bstate EXCEPT ![nExec + 1] = "starting"]
    /\ execAt' = [execAt EXCEPT ![nExec + 1] = nInput]
    /\ UNCHANGED <<connVars, handler, nInput, nPing, nPong, nBad, inputChan, inputClosed, proc,
                   waitErr, exitTask, inTask, outTask, errTask, nOut, nErr,
                   stdinLog, stdinClosed, restVars, emitted, routed>>

\* case "execute": newChan := make(chan string, 10); currentInputChan = newChan;
\* go ts.executePythonScript(safeConn, newChan, msg.File)
ClientExecute(f) ==
    /\ handler = "reading"
    /\ nExec < env.bridges
    /\ nExec' = nExec + 1
    /\ currentInputChan' = nExec + 1
    /\ file' = [file EXCEPT ![nExec + 1] = f]
    /\ bstate' = [bstate EXCEPT ![nExec + 1] = "starting"]
    /\ execAt' = [execAt EXCEPT ![nExec + 1] = nInput]
    /\ UNCHANGED <<connVars, handler, nInput, nPing, nPong, nBad, inputChan, inputClosed, proc,
                   waitErr, exitTask, inTask, outTask, errTask, nOut, nErr,
                   stdinLog, stdinClosed, restVars, emitted, routed>>

\* case "input": targetChan := currentInputChan; if targetChan != nil,
\* select { case targetChan <- msg.Input + "\n": default: log "dropping" }.
\* A send on a closed channel panics; the deferred safeConn.Close() then runs.
ClientInput ==
    /\ handler = "reading"
    /\ nInput < env.inputs
    /\ nInput' = nInput + 1
    /\ LET input == nInput + 1
           t == currentInputChan
           entry(kept) == [id |-> input, alive |-> proc[t] = "alive",
                          pending |-> Len(inputChan[t]), kept |-> kept]
       IN  IF t = 0
           THEN UNCHANGED <<connVars, handler, inputChan, routed>>
           ELSE IF inputClosed[t]
           THEN /\ handler' = "panicked"
                /\ Close
                /\ UNCHANGED <<msgChan, sender, delivered, enq, dropped, nEnvSend,
                               inputChan, routed>>
           ELSE IF Len(inputChan[t]) < InputChanCap
           THEN /\ inputChan' = [inputChan EXCEPT ![t] = Append(@, inputLine(input))]
                /\ routed' = [routed EXCEPT ![t] = Append(@, entry(TRUE))]
                /\ UNCHANGED <<connVars, handler>>
           ELSE /\ routed' = [routed EXCEPT ![t] = Append(@, entry(FALSE))]
                /\ UNCHANGED <<connVars, handler, inputChan>>
    /\ UNCHANGED <<currentInputChan, nExec, nPing, nPong, nBad, file, bstate, inputClosed, proc,
                   waitErr, exitTask, inTask, outTask, errTask, nOut, nErr,
                   stdinLog, stdinClosed, restVars, emitted, execAt>>

\* A teardown that also ends the processes of the connection's bridges.
ReadErrorKill ==
    /\ handler = "reading"
    /\ handler' = "closed"
    /\ Close
    /\ proc' = [b \in Bridges |-> IF proc[b] = "alive" THEN "exited" ELSE proc[b]]
    /\ UNCHANGED <<msgChan, sender, delivered, enq, dropped, nEnvSend,
                   currentInputChan, nExec, nInput, nPing, nPong, nBad,
                   file, bstate, inputChan, inputClosed, waitErr, exitTask, inTask,
                   outTask, errTask, nOut, nErr, stdinLog, stdinClosed, restVars,
                   emitted, routed, execAt>>

\* err := safeConn.ReadJSON(&msg); if err != nil { break }; defer safeConn.Close()
ReadError ==
    /\ handler = "reading"
    /\ handler' = "closed"
    /\ Close
    /\ UNCHANGED <<msgChan, sender, delivered, enq, dropped, nEnvSend,
                   currentInputChan, nExec, nInput, nPing, nPong, nBad, bridgeVars, rlVars, authVars>>

\* A frame that does not decode: ReadJSON returns the decoder's error, and the
\* loop breaks on every error of ReadJSON; the deferred safeConn.Close() runs.
ClientMalformed ==
    /\ handler = "reading"
    /\ nBad < MaxMalformed
    /\ nBad' = nBad + 1
    /\ handler' = "closed"
    /\ Close
    /\ UNCHANGED <<msgChan, sender, delivered, enq, dropped, nEnvSend,
                   currentInputChan, nExec, nInput, nPing, nPong, bridgeVars, rlVars, authVars>>

(***************************************************************************)
(* executePythonScript, executePtyScript / executePipeScript, handleIO      *)
(***************************************************************************)

\* runtime.GOOS == "linux" || runtime.GOOS == "darwin": the pty path
UsePty == env.goos = "linux"

\* The error message of a start that fails, "" when the target passes the
\* three checks of executePythonScript.
StartError(f) ==
    IF f = <<>> THEN "No Python file specified for execution."
    ELSE IF ~validateAndResolvePath(f).ok THEN "Invalid file path"
    ELSE IF ~Exists(validateAndResolvePath(f).path) THEN "File not found"
    ELSE ""

bridgeRest == <<file, waitErr, nOut, nErr, stdinLog, stdinClosed, restVars, routed, execAt>>

\* The goroutine started by "execute".  A target that fails a check: one
\* "error" message, close(inputChan), return.  Otherwise the process is
\* started (pty.Start / cmd.Start); a start error sends one "error" message
\* and returns, leaving inputChan open; a started process gets the goroutines
\* of handleIO.
StartBridge(b) ==
    /\ bstate[b] = "starting"
    /\ IF StartError(file[b]) # ""
       THEN /\ SendMessage(Msg("error", b, 1, StartError(file[b])))
            /\ emitted' = [emitted EXCEPT ![b] = Append(@, Msg("error", b, 1, StartError(file[b])))]
            /\ inputClosed' = [inputClosed EXCEPT ![b] = TRUE]
            /\ bstate' = [bstate EXCEPT ![b] = "failed"]
            /\ UNCHANGED <<proc, exitTask, inTask, outTask, errTask>>
       ELSE \E started \in BOOLEAN :
              IF started
              THEN /\ proc' = [proc EXCEPT ![b] = "alive"]
                   /\ bstate' = [bstate EXCEPT ![b] = "running"]
                   /\ exitTask' = [exitTask EXCEPT ![b] = "run"]
                   /\ inTask' = [inTask EXCEPT ![b] = "run"]
                   /\ outTask' = [outTask EXCEPT ![b] = "run"]
                   /\ errTask' = [errTask EXCEPT ![b] = IF UsePty THEN "none" ELSE "run"]
                   /\ UNCHANGED <<msgChan, enq, dropped, emitted, inputClosed>>
              ELSE /\ SendMessage(Msg("error", b, 1, "Failed to start"))
                   /\ emitted' = [emitted EXCEPT ![b] = Append(@, Msg("error", b, 1, "Failed to start"))]
                   /\ bstate' = [bstate EXCEPT ![b] = "failed"]
                   /\ UNCHANGED <<inputClosed, proc, exitTask, inTask, outTask, errTask>>
    /\ UNCHANGED <<connRest, handlerVars, inputChan, bridgeRest>>

\* The child process ends; cmd.Wait() will return r.
ProcExit(b) ==
    /\ proc[b] = "alive"
    /\ \E r \in env.waits : waitErr' = [waitErr EXCEPT ![b] = r]
    /\ proc' = [proc EXCEPT ![b] = "exited"]
    /\ UNCHANGED <<connVars, handlerVars, file, bstate, inputChan, inputClosed,
                   exitTask, inTask, outTask, errTask, nOut, nErr, stdinLog,
                   stdinClosed, restVars, emitted, routed, execAt>>

\* An exit goroutine that leaves the input queue open.
ExitSupervisionNoClose(b) ==
    /\ exitTask[b] = "run"
    /\ proc[b] = "exited"
    /\ SendMessage(Msg("completed", b, 1, CompletedContent(exitCode(waitErr[b]))))
    /\ emitted' = [emitted EXCEPT ![b] =
           Append(@, Msg("completed", b, 1, CompletedContent(exitCode(waitErr[b]))))]
    /\ exitTask' = [exitTask EXCEPT ![b] = "done"]
    /\ UNCHANGED <<connRest, handlerVars, file, bstate, inputChan, inputClosed, proc,
                   waitErr, inTask, outTask, errTask, nOut, nErr, stdinLog,
                   stdinClosed, restVars, routed, execAt>>

\* An exit goroutine that closes the input queue without a "completed"
\* message.
ExitSupervisionSilent(b) ==
    /\ exitTask[b] = "run"
    /\ proc[b] = "exited"
    /\ inputClosed' = [inputClosed EXCEPT ![b] = TRUE]
    /\ exitTask' = [exitTask EXCEPT ![b] = "done"]
    /\ UNCHANGED <<connVars, handlerVars, file, bstate, inputChan, proc, waitErr,
                   inTask, outTask, errTask, nOut, nErr, stdinLog, stdinClosed,
                   restVars, emitted, routed, execAt>>

\* The exit goroutine: err := cmd.Wait(); SendMessage("completed",
\* "Exit code: N"); deferred close(inputChan).
ExitSupervision(b) ==
    /\ exitTask[b] = "run"
    /\ proc[b] = "exited"
    /\ SendMessage(Msg("completed", b, 1, CompletedContent(exitCode(waitErr[b]))))
    /\ emitted' = [emitted EXCEPT ![b] =
           Append(@, Msg("completed", b, 1, CompletedContent(exitCode(waitErr[b]))))]
    /\ inputClosed' = [inputClosed EXCEPT ![b] = TRUE]
    /\ exitTask' = [exitTask EXCEPT ![b] = "done"]
    /\ UNCHANGED <<connRest, handlerVars, file, bstate, inputChan, proc, waitErr,
                   inTask, outTask, errTask, nOut, nErr, stdinLog, stdinClosed,
                   restVars, routed, execAt>>

\* An input goroutine whose write waits for the process to read: with the
\* process gone, the write never returns.
InputForwardWait(b) ==
    /\ inTask[b] = "run"
    /\ IF inputChan[b] # <<>>
       THEN /\ proc[b] = "alive"
            /\ inputChan' = [inputChan EXCEPT ![b] = Tail(@)]
            /\ stdinLog' = [stdinLog EXCEPT ![b] = Append(@, Head(inputChan[b]))]
            /\ UNCHANGED <<inTask, stdinClosed>>
       ELSE /\ inputClosed[b]
            /\ inTask' = [inTask EXCEPT ![b] = "done"]
            /\ stdinClosed' = [stdinClosed EXCEPT ![b] = TRUE]
            /\ UNCHANGED <<inputChan, stdinLog>>
    /\ UNCHANGED <<connVars, handlerVars, file, bstate, inputClosed, proc, waitErr,
                   exitTask, outTask, errTask, nOut, nErr, restVars, emitted, routed,
                   execAt>>

\* An input goroutine that reports a failed write to the client.
InputForwardReport(b) ==
    /\ inTask[b] = "run"
    /\ IF inputChan[b] # <<>>
       THEN /\ inputChan' = [inputChan EXCEPT ![b] = Tail(@)]
            /\ \E ok \in (IF proc[b] = "alive" THEN {TRUE} ELSE {TRUE, FALSE}) :
                 IF ok
                 THEN /\ stdinLog' = [stdinLog EXCEPT ![b] = Append(@, Head(inputChan[b]))]
                      /\ UNCHANGED <<inTask, stdinClosed, msgChan, enq, dropped, emitted>>
                 ELSE /\ inTask' = [inTask EXCEPT ![b] = "done"]
                      /\ stdinClosed' = [stdinClosed EXCEPT ![b] = TRUE]
                      /\ SendMessage(Msg("error", b, 1, "Error writing to stdin"))
                      /\ emitted' = [emitted EXCEPT ![b] =
                             Append(@, Msg("error", b, 1, "Error writing to stdin"))]
                      /\ UNCHANGED stdinLog
       ELSE /\ inputClosed[b]
            /\ inTask' = [inTask EXCEPT ![b] = "done"]
            /\ stdinClosed' = [stdinClosed EXCEPT ![b] = TRUE]
            /\ UNCHANGED <<inputChan, stdinLog, msgChan, enq, dropped, emitted>>
    /\ UNCHANGED <<connRest, handlerVars, file, bstate, inputClosed, proc, waitErr,
                   exitTask, outTask, errTask, nOut, nErr, restVars, routed, execAt>>

\* The input goroutine: for input := range inputChan { io.WriteString(stdin,
\* input) }, return on a write error; deferred stdin.Close().  A write to a
\* live process succeeds; a write after the process has ended may fail.
InputForward(b) ==
    /\ inTask[b] = "run"
    /\ IF inputChan[b] # <<>>
       THEN /\ inputChan' = [inputChan EXCEPT ![b] = Tail(@)]
            /\ \E ok \in (IF proc[b] = "alive" THEN {TRUE} ELSE {TRUE, FALSE}) :
                 IF ok
                 THEN /\ stdinLog' = [stdinLog EXCEPT ![b] = Append(@, Head(inputChan[b]))]
                      /\ UNCHANGED <<inTask, stdinClosed>>
                 ELSE /\ inTask' = [inTask EXCEPT ![b] = "done"]
                      /\ stdinClosed' = [stdinClosed EXCEPT ![b] = TRUE]
                      /\ UNCHANGED stdinLog
       ELSE /\ inputClosed[b]
            /\ inTask' = [inTask EXCEPT ![b] = "done"]
            /\ stdinClosed' = [stdinClosed EXCEPT ![b] = TRUE]
            /\ UNCHANGED <<inputChan, stdinLog>>
    /\ UNCHANGED <<connVars, handlerVars, file, bstate, inputClosed, proc, waitErr,
                   exitTask, outTask, errTask, nOut, nErr, restVars, emitted, routed,
                   execAt>>

\* cmd.Wait() closes the pipes of StdoutPipe / StderrPipe once it has seen
\* the process exit; the pty is closed by stdin.Close().
StreamClosed(b) == IF UsePty THEN stdinClosed[b] ELSE exitTask[b] = "done"

\* The stdout goroutine: n, err := stdout.Read(buffer); n > 0 sends one
\* "stdout" message; err ends the goroutine.
StdoutRead(b) ==
    /\ outTask[b] = "run"
    /\ \/ /\ nOut[b] < env.chunks
          /\ ~StreamClosed(b)
          /\ nOut' = [nOut EXCEPT ![b] = @ + 1]
          /\ SendMessage(Msg("stdout", b, nOut[b] + 1, <<nOut[b] + 1>>))
          /\ UNCHANGED outTask
       \/ /\ proc[b] = "exited" \/ StreamClosed(b)
          /\ outTask' = [outTask EXCEPT ![b] = "done"]
          /\ UNCHANGED <<msgChan, enq, dropped, nOut>>
    /\ UNCHANGED <<connRest, handlerVars, file, bstate, inputChan, inputClosed, proc,
                   waitErr, exitTask, inTask, errTask, nErr, stdinLog, stdinClosed,
                   restVars, emitted, routed, execAt>>

\* The stderr goroutine (pipe mode only), as the stdout goroutine.
StderrRead(b) ==
    /\ errTask[b] = "run"
    /\ \/ /\ nErr[b] < env.chunks
          /\ ~StreamClosed(b)
          /\ nErr' = [nErr EXCEPT ![b] = @ + 1]
          /\ SendMessage(Msg("stderr", b, nErr[b] + 1, <<nErr[b] + 1>>))
          /\ UNCHANGED errTask
       \/ /\ proc[b] = "exited" \/ StreamClosed(b)
          /\ errTask' = [errTask EXCEPT ![b] = "done"]
          /\ UNCHANGED <<msgChan, enq, dropped, nErr>>
    /\ UNCHANGED <<connRest, handlerVars, file, bstate, inputChan, inputClosed, proc,
                   waitErr, exitTask, inTask, outTask, nOut, stdinLog, stdinClosed,
                   restVars, emitted, routed, execAt>>

\* A handleIO that closes the connection when it returns.
HandleIOReturnClose(b) ==
    /\ bstate[b] = "running"
    /\ exitTask[b] = "done"
    /\ inTask[b] = "done"
    /\ outTask[b] = "done"
    /\ errTask[b] \in {"none", "done"}
    /\ bstate' = [bstate EXCEPT ![b] = "returned"]
    /\ stdinClosed' = [stdinClosed EXCEPT ![b] = TRUE]
    /\ Close
    /\ UNCHANGED <<msgChan, sender, delivered, enq, dropped, nEnvSend, handlerVars,
                   file, inputChan, inputClosed, proc, waitErr, exitTask, inTask,
                   outTask, errTask, nOut, nErr, stdinLog, restVars, emitted, routed,
                   execAt>>

\* wg.Wait() returns once every goroutine of handleIO has ended; in pty mode
\* the deferred ptmx.Close() follows.
HandleIOReturn(b) ==
    /\ bstate[b] = "running"
    /\ exitTask[b] = "done"
    /\ inTask[b] = "done"
    /\ outTask[b] = "done"
    /\ errTask[b] \in {"none", "done"}
    /\ bstate' = [bstate EXCEPT ![b] = "returned"]
    /\ stdinClosed' = [stdinClosed EXCEPT ![b] = TRUE]
    /\ UNCHANGED <<connVars, handlerVars, file, inputChan, inputClosed, proc, waitErr,
                   exitTask, inTask, outTask, errTask, nOut, nErr, stdinLog, restVars,
                   emitted, routed, execAt>>

(***************************************************************************)
(* The execution session: one connection, its read loop and its bridges    *)
(***************************************************************************)

SenderStep ==
    /\ SenderTake \/ SenderDone
    /\ UNCHANGED <<done, connClosed, closeFault, closeCalls, enq, dropped, nEnvSend,
                   handlerVars, bridgeVars, rlVars, authVars>>

\* The goroutines of the connection and of its bridges in pty mode
PtyGoroutines ==
    \/ SenderStep
    \/ \E b \in Bridges : StartBridge(b)
    \/ \E b \in Bridges : ProcExit(b)
    \/ \E b \in Bridges : ExitSupervision(b)
    \/ \E b \in Bridges : InputForward(b)
    \/ \E b \in Bridges : StdoutRead(b)
    \/ \E b \in Bridges : HandleIOReturn(b)

\* The same with the stderr goroutine of pipe mode
Goroutines ==
    \/ PtyGoroutines
    \/ \E b \in Bridges : StderrRead(b)

\* The environments of the specifications below: the platform of the server,
\* what the client sends (bridges, inputs, pings), what the processes do
\* (chunks printed per stream, results of Wait) and whether a write to a
\* connection that is still open can fail.
Env(platforms, bridges, inputs, pings, chunks, targets, waits, flaky) ==
    { [goos |-> g, bridges |-> bridges, inputs |-> inputs, pings |-> pings,
       chunks |-> chunks, targets |-> targets, waits |-> waits, flaky |-> flaky] :
      g \in platforms }

Platforms == {"linux", "windows"}

ValidTarget == << <<"a">> >>

CleanExit == [err |-> "nil", code |-> 0]

\* Starts and exits: one bridge, every target, every result of cmd.Wait().
InitStart == InitWith(Env(Platforms, 1, 0, 0, 1, Targets, WaitResults, TRUE))

NextStart ==
    \/ \E f \in env.targets : ClientExecute(f)
    \/ ReadError
    \/ Goroutines

SpecStart == InitStart /\ [][NextStart]_vars

\* Input forwarding: one bridge and a client that sends more inputs than the
\* input queue holds.
InitInput == InitWith(Env(Platforms, 1, MaxInputs, 0, 1, {ValidTarget}, {CleanExit}, TRUE))

NextInput ==
    \/ \E f \in env.targets : ClientExecute(f)
    \/ ClientInput
    \/ ReadError
    \/ Goroutines

SpecInput == InitInput /\ [][NextInput]_vars

\* Supersession: two "execute" requests on a connection that stays open.
InitSupersede == InitWith(Env({"linux"}, 2, 2, 0, 1, {ValidTarget}, {CleanExit}, FALSE))

NextSupersede ==
    \/ \E f \in env.targets : ClientExecute(f)
    \/ ClientInput
    \/ PtyGoroutines

SpecSupersede == InitSupersede /\ [][NextSupersede]_vars

\* A script that reads env.reads lines from its standard input before it
\* ends: its process cannot exit while it waits for a line (its stdin is
\* neither written nor closed).
ScriptExit(b) ==
    /\ Len(stdinLog[b]) >= env.reads
    /\ ProcExit(b)

\* Scripts that read no input, and scripts that wait for one line
ScriptEnv == {[reads |-> r] @@ e :
                 r \in 0..1, e \in Env({"linux"}, 2, 1, 0, 1, {ValidTarget}, {CleanExit}, FALSE)}

InitSupersedeFair == InitWith(ScriptEnv)

NextSupersedeFair ==
    \/ \E f \in env.targets : ClientExecute(f)
    \/ ClientInput
    \/ SenderStep
    \/ \E b \in Bridges : StartBridge(b)
    \/ \E b \in Bridges : ScriptExit(b)
    \/ \E b \in Bridges : ExitSupervision(b)
    \/ \E b \in Bridges : InputForward(b)
    \/ \E b \in Bridges : StdoutRead(b)
    \/ \E b \in Bridges : HandleIOReturn(b)

\* The goroutines are scheduled fairly, and a script that can end does end;
\* the client is free to stop sending.
SpecSupersedeFair ==
    /\ InitSupersedeFair
    /\ [][NextSupersedeFair]_vars
    /\ WF_vars(SenderStep)
    /\ \A b \in Bridges :
          /\ WF_vars(StartBridge(b))
          /\ WF_vars(ScriptExit(b))
          /\ WF_vars(ExitSupervision(b))
          /\ WF_vars(InputForward(b))
          /\ WF_vars(StdoutRead(b))
          /\ WF_vars(HandleIOReturn(b))

\* Output forwarding: one bridge whose process prints on both streams, and a
\* client that pings.
InitOutput == InitWith(Env(Platforms, 1, 0, MaxPings, MaxChunks, {ValidTarget}, {CleanExit}, TRUE))

NextOutput ==
    \/ \E f \in env.targets : ClientExecute(f)
    \/ ClientPing
    \/ ReadError
    \/ Goroutines

SpecOutput == InitOutput /\ [][NextOutput]_vars

\* One script, with every kind of client message arriving at any time
InitProtocol == InitWith(Env(Platforms, 1, 1, 1, 1, {ValidTarget}, {CleanExit}, FALSE))

NextProtocol ==
    \/ \E f \in env.targets : ClientExecute(f)
    \/ ClientInput
    \/ ClientPing
    \/ ClientPong
    \/ ClientMalformed
    \/ Goroutines

SpecProtocol == InitProtocol /\ [][NextProtocol]_vars

\* The life of one bridge: every target, a start that may fail, one input
\* that may arrive before or after the process has ended
InitLifecycle == InitWith(Env(Platforms, 1, 1, 0, 1, Targets, {CleanExit}, FALSE))

NextLifecycle ==
    \/ \E f \in env.targets : ClientExecute(f)
    \/ ClientInput
    \/ Goroutines

SpecLifecycle == InitLifecycle /\ [][NextLifecycle]_vars

\* One bridge and its goroutines under fair scheduling: a goroutine of
\* handleIO that can take a step does take it; the process is free to run
\* for ever, and the client to send input or to leave at any time.
InitDrain == InitWith(Env(Platforms, 1, 2, 0, 1, {ValidTarget}, {CleanExit}, TRUE))

NextDrain ==
    \/ \E f \in env.targets : ClientExecute(f)
    \/ ClientInput
    \/ ReadError
    \/ Goroutines

SpecDrain ==
    /\ InitDrain
    /\ [][NextDrain]_vars
    /\ \A b \in Bridges :
          /\ WF_vars(ExitSupervision(b))
          /\ WF_vars(InputForward(b))
          /\ WF_vars(StdoutRead(b))
          /\ WF_vars(StderrRead(b))
          /\ WF_vars(HandleIOReturn(b))

\* The end of a connection: up to two scripts started on it, and a read that
\* fails (the client gone, the read deadline, a frame that does not decode)
InitTeardown == InitWith(Env({"linux"}, 2, 1, 0, 1, {ValidTarget}, {CleanExit}, FALSE))

NextTeardown ==
    \/ \E f \in env.targets : ClientExecute(f)
    \/ ClientInput
    \/ ReadError
    \/ ClientMalformed
    \/ PtyGoroutines

SpecTeardown == InitTeardown /\ [][NextTeardown]_vars

(***************************************************************************)
(* SafeWebSocketConn on its own: any caller may call SendMessage and Close *)
(***************************************************************************)

\* A call of SendMessage by some goroutine
CallSendMessage ==
    /\ nEnvSend < MaxEnvSends
    /\ nEnvSend' = nEnvSend + 1
    /\ SendMessage(Msg("stdout", 0, nEnvSend + 1, <<nEnvSend + 1>>))
    /\ UNCHANGED <<done, connClosed, sender, delivered, closeFault, closeCalls,
                   handlerVars, bridgeVars, rlVars, authVars>>

\* A call of Close by some goroutine
CallClose ==
    /\ closeCalls < MaxCloseCalls
    /\ Close
    /\ UNCHANGED <<msgChan, sender, delivered, enq, dropped, nEnvSend,
                   handlerVars, bridgeVars, rlVars, authVars>>

InitConn == InitWith(Env({"linux"}, 0, 0, 0, 0, {}, {}, TRUE))

NextConn ==
    \/ CallSendMessage
    \/ CallClose
    \/ SenderStep

SpecConn == InitConn /\ [][NextConn]_vars

\* The same on a connection whose writes fail only once it is closed, with
\* the messageSender goroutine scheduled fairly
InitConnFair == InitWith(Env({"linux"}, 0, 0, 0, 0, {}, {}, FALSE))

SpecConnFair == InitConnFair /\ [][NextConn]_vars /\ WF_vars(SenderStep)

(***************************************************************************)
(* RateLimiter                                                             *)
(***************************************************************************)

\* &AttemptRecord{}
NewRecord == [Count |-> 0, LastAttempt |-> ZeroTime, LockedUntil |-> ZeroTime]

\* 15*time.Minute, the window after which the counter starts again
Window == 15 * Minute

Hour == 60 * Minute

\* A curve whose first step is at 4 attempts.
lockDurationFrom4(count) ==
    IF count >= 10 THEN Hour
    ELSE IF count >= 6 THEN 10 * Minute
    ELSE IF count >= 4 THEN Minute
    ELSE 0

\* A curve with the two upper steps exchanged.
lockDurationSwapped(count) ==
    IF count >= 10 THEN 10 * Minute
    ELSE IF count >= 6 THEN Hour
    ELSE IF count >= 3 THEN Minute
    ELSE 0

\* The switch of RecordFailedAttempt: the lockout for a count, 0 for "no
\* lockout yet"
lockDuration(count) ==
    IF count >= 10 THEN Hour
    ELSE IF count >= 6 THEN 10 * Minute
    ELSE IF count >= 3 THEN Minute
    ELSE 0

\* A counter that is never reset.
countAfterNoReset(record, t) == record.Count + 1

\* if now.Sub(record.LastAttempt) > 15*time.Minute { record.Count = 0 };
\* record.Count++
countAfter(record, t) ==
    (IF t - record.LastAttempt > Window THEN 0 ELSE record.Count) + 1

\* IsBlocked: <<blocked, remaining>>
IsBlocked(id) ==
    IF attempts[id] = NoRecord THEN <<FALSE, 0>>
    ELSE IF now < attempts[id].LockedUntil
         THEN <<TRUE, attempts[id].LockedUntil - now>>
         ELSE <<FALSE, 0>>

\* RecordFailedAttempt: the record is created when absent, the counter is
\* reset after the window and incremented, LastAttempt is set, and from the
\* third attempt on LockedUntil = now + lockDuration.
RecordFailedAttempt(id) ==
    LET record == IF attempts[id] = NoRecord THEN NewRecord ELSE attempts[id]
        count == countAfter(record, now)
        d == lockDuration(count)
    IN  /\ rlRet.call < MaxCalls
        /\ attempts' = [attempts EXCEPT ![id] =
               [Count |-> count, LastAttempt |-> now,
                LockedUntil |-> IF d = 0 THEN record.LockedUntil ELSE now + d]]
        /\ rlRet' = [call |-> rlRet.call + 1, id |-> id, locked |-> d # 0, duration |-> d]
        /\ streak' = [streak EXCEPT ![id] =
               [n |-> @.n + 1,
                close |-> @.close /\ (@.n = 0 \/ now - record.LastAttempt <= Window)]]
        /\ rlOp' = [op |-> "RecordFailedAttempt", id |-> id]
        /\ UNCHANGED <<now, nTicks, rlQuery, connVars, handlerVars, bridgeVars, authVars>>

\* A success that clears the whole map.
RecordSuccessfulLoginAll(id) ==
    /\ attempts[id] # NoRecord
    /\ attempts' = [i \in Identities |-> NoRecord]
    /\ streak' = [i \in Identities |-> [n |-> 0, close |-> TRUE]]
    /\ rlOp' = [op |-> "RecordSuccessfulLogin", id |-> id]
    /\ UNCHANGED <<now, nTicks, rlRet, rlQuery, connVars, handlerVars, bridgeVars, authVars>>

\* RecordSuccessfulLogin: delete(rl.attempts, clientIP)
RecordSuccessfulLogin(id) ==
    /\ attempts[id] # NoRecord
    /\ attempts' = [attempts EXCEPT ![id] = NoRecord]
    /\ streak' = [streak EXCEPT ![id] = [n |-> 0, close |-> TRUE]]
    /\ rlOp' = [op |-> "RecordSuccessfulLogin", id |-> id]
    /\ UNCHANGED <<now, nTicks, rlRet, rlQuery, connVars, handlerVars, bridgeVars, authVars>>

\* A sweep that deletes every record whose lockout is over, whatever its age.
CleanupOldRecordsUnlocked ==
    LET old(id) == /\ attempts[id] # NoRecord
                   /\ now > attempts[id].LockedUntil
    IN  /\ attempts' = [id \in Identities |-> IF old(id) THEN NoRecord ELSE attempts[id]]
        /\ streak' = [id \in Identities |->
               IF old(id) THEN [n |-> 0, close |-> TRUE] ELSE streak[id]]
        /\ rlOp' = [op |-> "CleanupOldRecords", id |-> ""]
        /\ UNCHANGED <<now, nTicks, rlRet, rlQuery, connVars, handlerVars, bridgeVars, authVars>>

\* CleanupOldRecords (every 10 minutes): delete the records whose last attempt
\* is more than an hour old and whose lockout is over.
CleanupOldRecords ==
    LET old(id) == /\ attempts[id] # NoRecord
                   /\ now - attempts[id].LastAttempt > Hour
                   /\ now > attempts[id].LockedUntil
    IN  /\ attempts' = [id \in Identities |-> IF old(id) THEN NoRecord ELSE attempts[id]]
        /\ streak' = [id \in Identities |->
               IF old(id) THEN [n |-> 0, close |-> TRUE] ELSE streak[id]]
        /\ rlOp' = [op |-> "CleanupOldRecords", id |-> ""]
        /\ UNCHANGED <<now, nTicks, rlRet, rlQuery, connVars, handlerVars, bridgeVars, authVars>>

\* The steps by which the clock advances in the model: half a minute, the
\* window, just over the window, just over an hour.
TickSteps == {1, Window, Window + 1, Hour + 1}

Tick ==
    /\ nTicks < MaxTicks
    /\ nTicks' = nTicks + 1
    /\ \E d \in TickSteps : now' = now + d
    /\ UNCHANGED <<attempts, rlRet, streak, rlQuery, rlOp, connVars, handlerVars,
                   bridgeVars, authVars>>

\* An IsBlocked that deletes a record whose lockout is over, as
\* ValidateSession does with an expired session.
CallIsBlockedEvict(id) ==
    /\ rlQuery.call < MaxQueries
    /\ rlQuery' = [call |-> rlQuery.call + 1, id |-> id,
                   blocked |-> IsBlocked(id)[1], remaining |-> IsBlocked(id)[2]]
    /\ attempts' = IF attempts[id] # NoRecord /\ ~IsBlocked(id)[1]
                   THEN [attempts EXCEPT ![id] = NoRecord]
                   ELSE attempts
    /\ rlOp' = [op |-> "IsBlocked", id |-> id]
    /\ UNCHANGED <<now, nTicks, rlRet, streak, connVars, handlerVars, bridgeVars, authVars>>

\* A call of IsBlocked (under rl.mutex.RLock): it returns, and writes nothing
CallIsBlocked(id) ==
    /\ rlQuery.call < MaxQueries
    /\ rlQuery' = [call |-> rlQuery.call + 1, id |-> id,
                   blocked |-> IsBlocked(id)[1], remaining |-> IsBlocked(id)[2]]
    /\ rlOp' = [op |-> "IsBlocked", id |-> id]
    /\ UNCHANGED <<attempts, now, nTicks, rlRet, streak, connVars, handlerVars,
                   bridgeVars, authVars>>

\* One client identity failing to log in, over time
NextLimiter ==
    \/ \E id \in {"10.0.0.1"} : RecordFailedAttempt(id)
    \/ \E id \in {"10.0.0.1"} : RecordSuccessfulLogin(id)
    \/ CleanupOldRecords
    \/ Tick

InitLimiter == InitWith(Env({"linux"}, 0, 0, 0, 0, {}, {}, FALSE))

SpecLimiter == InitLimiter /\ [][NextLimiter]_vars

\* Two client identities failing and succeeding to log in, a few times each,
\* with IsBlocked asked in between
NextLogin ==
    \/ \E id \in Identities : rlRet.call < MaxFailures /\ RecordFailedAttempt(id)
    \/ \E id \in Identities : RecordSuccessfulLogin(id)
    \/ \E id \in Identities : CallIsBlocked(id)
    \/ CleanupOldRecords
    \/ nTicks < MaxLoginTicks /\ Tick

SpecLogin == InitLimiter /\ [][NextLogin]_vars

(***************************************************************************)
(* SessionManager                                                          *)
(***************************************************************************)

\* time.Now().Add(24 * time.Hour)
SessionTTL == 24 * Hour

\* A token nobody was given (CreateSession draws 32 random bytes; the model
\* numbers the tokens it returns 1, 2, ...)
ForgedToken == MaxTokens + 1

\* The server process has been stopped by the runtime
Stopped == \E c \in Callers : vcall[c].pc = "fatal"

\* Callers holding sm.mutex.RLock
Readers == {c \in Callers : vcall[c].pc \in {"rlocked", "expired", "deleting"}}

\* Callers inside delete(sm.sessions, token)
Deleting(c) == {d \in Callers \ {c} : vcall[d].pc = "deleting"}

\* expiry, exists := sm.sessions[token]; time.Now().After(expiry)
sessionLookup(token) ==
    IF token \notin DOMAIN sessions THEN "absent"
    ELSE IF now > sessions[token] THEN "expired"
    ELSE "valid"

Without(m, token) == [t \in DOMAIN m \ {token} |-> m[t]]

\* CreateSession, under sm.mutex.Lock: a fresh token that expires in 24 hours
CreateSession ==
    /\ ~Stopped
    /\ Readers = {}
    /\ nTokens < MaxTokens
    /\ nTokens' = nTokens + 1
    /\ sessions' = sessions @@ ((nTokens + 1) :> (now + SessionTTL))
    /\ createdAt' = Append(createdAt, now)
    /\ UNCHANGED <<vcall, nValidate, loggedOut, authRet, login, connVars, handlerVars,
                   bridgeVars, rlVars, shell>>

\* ValidateSession: sm.mutex.RLock()
ValidateBegin(c, token) ==
    /\ ~Stopped
    /\ vcall[c].pc \in {"idle", "returned"}
    /\ nValidate < MaxValidates
    /\ nValidate' = nValidate + 1
    /\ vcall' = [vcall EXCEPT ![c] = [pc |-> "rlocked", token |-> token, at |-> now,
                                     ret |-> FALSE, lo |-> token \in loggedOut]]
    /\ UNCHANGED <<sessions, nTokens, createdAt, loggedOut, authRet, login, connVars,
                   handlerVars, bridgeVars, rlVars, shell>>

\* ValidateSession: the lookup and the comparison with time.Now().  A lookup
\* while another goroutine is inside delete is unsynchronised: the runtime may
\* stop the server ("concurrent map read and map write").
ValidateRead(c) ==
    /\ ~Stopped
    /\ vcall[c].pc = "rlocked"
    /\ \/ /\ Deleting(c) # {}
          /\ vcall' = [vcall EXCEPT ![c].pc = "fatal", ![c].at = now]
       \/ vcall' = [vcall EXCEPT ![c] =
              CASE sessionLookup(vcall[c].token) = "absent" ->
                       [@ EXCEPT !.pc = "returned", !.ret = FALSE, !.at = now]
                [] sessionLookup(vcall[c].token) = "expired" ->
                       [@ EXCEPT !.pc = "expired", !.at = now]
                [] OTHER ->
                       [@ EXCEPT !.pc = "returned", !.ret = TRUE, !.at = now]]
    /\ UNCHANGED <<sessions, nTokens, createdAt, nValidate, loggedOut, authRet, login,
                   connVars, handlerVars, bridgeVars, rlVars, shell>>

\* ValidateSession: delete(sm.sessions, token) begins, with only the read lock
\* held.  Two goroutines inside delete are unsynchronised writers: the
\* runtime may stop the server ("concurrent map writes").
ValidateDeleteBegin(c) ==
    /\ ~Stopped
    /\ vcall[c].pc = "expired"
    /\ \/ /\ Deleting(c) # {}
          /\ vcall' = [vcall EXCEPT ![c].pc = "fatal"]
       \/ vcall' = [vcall EXCEPT ![c].pc = "deleting"]
    /\ UNCHANGED <<sessions, nTokens, createdAt, nValidate, loggedOut, authRet, login,
                   connVars, handlerVars, bridgeVars, rlVars, shell>>

\* ValidateSession: delete ends, return false, RUnlock
ValidateDeleteEnd(c) ==
    /\ ~Stopped
    /\ vcall[c].pc = "deleting"
    /\ \/ /\ Deleting(c) # {}
          /\ vcall' = [vcall EXCEPT ![c].pc = "fatal"]
          /\ UNCHANGED sessions
       \/ /\ sessions' = Without(sessions, vcall[c].token)
          /\ vcall' = [vcall EXCEPT ![c].pc = "returned", ![c].ret = FALSE]
    /\ UNCHANGED <<nTokens, createdAt, nValidate, loggedOut, authRet, login, connVars,
                   handlerVars, bridgeVars, rlVars, shell>>

\* A sweep that also removes the sessions that expire at this very moment.
CleanupExpiredSessionsEager ==
    /\ ~Stopped
    /\ Readers = {}
    /\ sessions' = [t \in {u \in DOMAIN sessions : now < sessions[u]} |-> sessions[t]]
    /\ UNCHANGED <<nTokens, createdAt, vcall, nValidate, loggedOut, authRet, login,
                   connVars, handlerVars, bridgeVars, rlVars, shell>>

\* CleanupExpiredSessions (every hour), under sm.mutex.Lock
CleanupExpiredSessions ==
    /\ ~Stopped
    /\ Readers = {}
    /\ sessions' = [t \in {u \in DOMAIN sessions : ~(now > sessions[u])} |-> sessions[t]]
    /\ UNCHANGED <<nTokens, createdAt, vcall, nValidate, loggedOut, authRet, login,
                   connVars, handlerVars, bridgeVars, rlVars, shell>>

\* logoutHandler: an expired, empty cookie is set and the client is redirected
\* to the login page; the session manager is not called.
logoutHandler(token) ==
    /\ ~Stopped
    /\ token \in 1..nTokens
    /\ token \notin loggedOut
    /\ loggedOut' = loggedOut \cup {token}
    /\ UNCHANGED <<sessions, nTokens, createdAt, vcall, nValidate, authRet, login,
                   connVars, handlerVars, bridgeVars, rlVars, shell>>

\* The steps by which the clock advances while sessions live: a moment, and
\* the lifetime of a session
SessionTickSteps == {1, SessionTTL}

SessionTick ==
    /\ nTicks < MaxSessionTicks
    /\ nTicks' = nTicks + 1
    /\ \E d \in SessionTickSteps : now' = now + d
    /\ UNCHANGED <<attempts, rlRet, streak, rlQuery, rlOp, connVars, handlerVars,
                   bridgeVars, authVars>>

\* The tokens a client may present: those handed out, and a forged one
Presentable == (1..nTokens) \cup {ForgedToken}

\* Requests with session cookies arriving at any time, two at a time at most
NextSession ==
    \/ CreateSession
    \/ \E c \in Callers, token \in Presentable : ValidateBegin(c, token)
    \/ \E c \in Callers : ValidateRead(c)
    \/ \E c \in Callers : ValidateDeleteBegin(c)
    \/ \E c \in Callers : ValidateDeleteEnd(c)
    \/ CleanupExpiredSessions
    \/ \E token \in 1..MaxTokens : logoutHandler(token)
    \/ SessionTick

InitSession == InitWith(Env({"linux"}, 0, 0, 0, 0, {}, {}, FALSE))

SpecSession == InitSession /\ [][NextSession]_vars

\* Sessions created, looked up by one request at a time and swept, as time
\* passes
NextSweep ==
    \/ CreateSession
    \/ \E token \in Presentable : ValidateBegin(1, token)
    \/ ValidateRead(1)
    \/ ValidateDeleteBegin(1)
    \/ ValidateDeleteEnd(1)
    \/ CleanupExpiredSessions
    \/ SessionTick

SpecSweep == InitSession /\ [][NextSweep]_vars

(***************************************************************************)
(* requireAuth and the routes of main                                      *)
(***************************************************************************)

\* Request paths below the base path, as their elements: "/" is <<>>,
\* "/api/files" is <<"api", "files">>
RequestPaths == {<<>>, <<"ws">>, <<"ws-shell">>, <<"api", "files">>, <<"login">>,
                 <<"logout">>, <<"x">>, <<"x", "login">>}

\* http.HandleFunc in main: a pattern without a trailing slash matches that
\* path only; the root pattern "/" takes every other path
Mux(path) ==
    CASE path = <<"login">> -> "loginHandler"
      [] path = <<"logout">> -> "logoutHandler"
      [] path = <<"ws">> -> "websocketHandler"
      [] path = <<"ws-shell">> -> "shellWebsocketHandler"
      [] path = <<"api", "files">> -> "filesHandler"
      [] OTHER -> "terminalHandler"

\* The handlers main wraps in requireAuth
Wrapped == {"websocketHandler", "shellWebsocketHandler", "filesHandler",
            "terminalHandler"}

\* strings.HasSuffix(r.URL.Path, "/login"): the last element of the path is
\* "login"
HasLoginSuffix(path) == Len(path) > 0 /\ path[Len(path)] = "login"

\* requireAuth(next) serving one request; cookie 0 is a request without the
\* snakeflex_session cookie.  ValidateSession runs within the step.
requireAuth(path, cookie) ==
    LET next == Mux(path)
        look == IF cookie = 0 THEN "absent" ELSE sessionLookup(cookie)
        accepted == env.authEnabled /\ look = "valid"
        ran == IF ~env.authEnabled \/ accepted \/ HasLoginSuffix(path)
               THEN next ELSE "none"
    IN  /\ ~Stopped
        /\ Readers = {}
        /\ authRet.n < MaxRequests
        /\ next \in Wrapped
        /\ sessions' = IF env.authEnabled /\ look = "expired"
                       THEN Without(sessions, cookie) ELSE sessions
        /\ authRet' = [n |-> authRet.n + 1, enabled |-> env.authEnabled,
                       path |-> path, cookie |-> cookie, accepted |-> accepted,
                       ran |-> ran, redirected |-> ran = "none"]
        /\ UNCHANGED <<nTokens, createdAt, vcall, nValidate, loggedOut, login, connVars,
                       handlerVars, bridgeVars, rlVars, shell>>

\* A server started with or without --pass
AuthEnv == {[authEnabled |-> a] @@ e :
                a \in BOOLEAN, e \in Env({"linux"}, 0, 0, 0, 0, {}, {}, FALSE)}

\* Logins, and requests to the wrapped routes with and without a cookie
NextAuth ==
    \/ env.authEnabled /\ CreateSession
    \/ \E path \in RequestPaths, cookie \in {0} \cup Presentable : requireAuth(path, cookie)
    \/ SessionTick

InitAuth == InitWith(AuthEnv)

SpecAuth == InitAuth /\ [][NextAuth]_vars

(***************************************************************************)
(* handleLogin                                                             *)
(***************************************************************************)

\* handleLogin requests past IsBlocked that will do as asked
Pending(correct) == {d \in Callers : login[d].pc = "passed" /\ login[d].correct = correct}

\* A handleLogin that compares the password before it asks the rate limiter.
handleLoginBeginCompareFirst(c, id, correct) ==
    /\ login[c].pc \in {"idle", "served"}
    /\ rlQuery.call < MaxLogins
    /\ IF correct THEN nTokens + Cardinality(Pending(TRUE)) < MaxTokens
                  ELSE rlRet.call + Cardinality(Pending(FALSE)) < MaxFailures
    /\ rlQuery' = [call |-> rlQuery.call + 1, id |-> id,
                   blocked |-> IsBlocked(id)[1], remaining |-> IsBlocked(id)[2]]
    /\ rlOp' = [op |-> "IsBlocked", id |-> id]
    /\ login' = [login EXCEPT ![c] =
           IF IsBlocked(id)[1] /\ ~correct
           THEN [pc |-> "served", id |-> id, correct |-> correct, blocked |-> TRUE,
                 compared |-> TRUE, response |-> "blocked", token |-> 0]
           ELSE [pc |-> "passed", id |-> id, correct |-> correct,
                 blocked |-> IsBlocked(id)[1],
                 compared |-> IsBlocked(id)[1], response |-> "", token |-> 0]]
    /\ UNCHANGED <<attempts, now, nTicks, rlRet, streak, sessions, nTokens, createdAt,
                   vcall, nValidate, loggedOut, authRet, connVars, handlerVars,
                   bridgeVars, shell>>

\* handleLogin, first part: if blocked, _ := ts.rateLimiter.IsBlocked(r);
\* blocked { ts.serveBlockedPage(...); return }.  correct tells whether the
\* password of the request is the server's.
handleLoginBegin(c, id, correct) ==
    /\ login[c].pc \in {"idle", "served"}
    /\ rlQuery.call < MaxLogins
    /\ IF correct THEN nTokens + Cardinality(Pending(TRUE)) < MaxTokens
                  ELSE rlRet.call + Cardinality(Pending(FALSE)) < MaxFailures
    /\ rlQuery' = [call |-> rlQuery.call + 1, id |-> id,
                   blocked |-> IsBlocked(id)[1], remaining |-> IsBlocked(id)[2]]
    /\ rlOp' = [op |-> "IsBlocked", id |-> id]
    /\ login' = [login EXCEPT ![c] =
           IF IsBlocked(id)[1]
           THEN [pc |-> "served", id |-> id, correct |-> correct, blocked |-> TRUE,
                 compared |-> FALSE, response |-> "blocked", token |-> 0]
           ELSE [pc |-> "passed", id |-> id, correct |-> correct, blocked |-> FALSE,
                 compared |-> FALSE, response |-> "", token |-> 0]]
    /\ UNCHANGED <<attempts, now, nTicks, rlRet, streak, sessions, nTokens, createdAt,
                   vcall, nValidate, loggedOut, authRet, connVars, handlerVars,
                   bridgeVars, shell>>

\* handleLogin, second part: the hashed password is compared.  Equal:
\* RecordSuccessfulLogin, CreateSession, the cookie is set and the client is
\* redirected to the home page.  Not equal: RecordFailedAttempt, then the
\* blocked page if that locked the identity, else a redirect to /login?error=1.
handleLoginFinish(c) ==
    LET id == login[c].id
        record == IF attempts[id] = NoRecord THEN NewRecord ELSE attempts[id]
        count == countAfter(record, now)
        d == lockDuration(count)
    IN  /\ login[c].pc = "passed"
        /\ IF login[c].correct
           THEN /\ ~Stopped
                /\ Readers = {}
                /\ attempts' = [attempts EXCEPT ![id] = NoRecord]
                /\ streak' = [streak EXCEPT ![id] = [n |-> 0, close |-> TRUE]]
                /\ rlOp' = [op |-> "RecordSuccessfulLogin", id |-> id]
                /\ nTokens' = nTokens + 1
                /\ sessions' = sessions @@ ((nTokens + 1) :> (now + SessionTTL))
                /\ createdAt' = Append(createdAt, now)
                /\ login' = [login EXCEPT ![c].pc = "served", ![c].compared = TRUE,
                                          ![c].response = "home",
                                          ![c].token = nTokens + 1]
                /\ UNCHANGED rlRet
           ELSE /\ attempts' = [attempts EXCEPT ![id] =
                       [Count |-> count, LastAttempt |-> now,
                        LockedUntil |-> IF d = 0 THEN record.LockedUntil ELSE now + d]]
                /\ rlRet' = [call |-> rlRet.call + 1, id |-> id, locked |-> d # 0,
                             duration |-> d]
                /\ streak' = [streak EXCEPT ![id] =
                       [n |-> @.n + 1,
                        close |-> @.close /\ (@.n = 0 \/ now - record.LastAttempt <= Window)]]
                /\ rlOp' = [op |-> "RecordFailedAttempt", id |-> id]
                /\ login' = [login EXCEPT ![c].pc = "served", ![c].compared = TRUE,
                                          ![c].response =
                                              IF d # 0 THEN "blocked" ELSE "loginError"]
                /\ UNCHANGED <<sessions, nTokens, createdAt>>
        /\ UNCHANGED <<now, nTicks, rlQuery, vcall, nValidate, loggedOut, authRet,
                       connVars, handlerVars, bridgeVars, shell>>

\* The steps by which the clock advances between login requests: a moment,
\* and the shortest lockout
LoginTickSteps == {1, Minute}

LoginTick ==
    /\ nTicks < MaxLoginTicks
    /\ nTicks' = nTicks + 1
    /\ \E d \in LoginTickSteps : now' = now + d
    /\ UNCHANGED <<attempts, rlRet, streak, rlQuery, rlOp, connVars, handlerVars,
                   bridgeVars, authVars>>

\* POST /login requests of two client identities, two at a time at most, with
\* right and wrong passwords, over a few minutes
NextHandleLogin ==
    \/ \E c \in Callers, id \in Identities, correct \in BOOLEAN :
          handleLoginBegin(c, id, correct)
    \/ \E c \in Callers : handleLoginFinish(c)
    \/ LoginTick

InitHandleLogin == InitWith(Env({"linux"}, 0, 0, 0, 0, {}, {}, FALSE))

SpecHandleLogin == InitHandleLogin /\ [][NextHandleLogin]_vars

(***************************************************************************)
(* shellWebsocketHandler                                                   *)
(***************************************************************************)

shellRest == <<connVars, handlerVars, bridgeVars, rlVars, sessions, nTokens,
               createdAt, vcall, nValidate, loggedOut, authRet, login>>

\* What two overlapping conn.WriteMessage calls can come to: the websocket
\* connection supports one concurrent writer only; both frames may pass, the
\* library may detect the second writer and panic, or the frames may mix.
WriteRaceOutcomes == {"none", "panic", "corrupt"}

\* ptmx, err := pty.Start(cmd).  On an error the handler writes a text
\* message and returns (deferred conn.Close()); otherwise the pty is open,
\* the output goroutine is started and the handler enters its read loop.
ShellStart ==
    /\ shell.loop = "start"
    /\ \E started \in BOOLEAN :
          shell' = IF started
                   THEN [shell EXCEPT !.loop = "read", !.out = "read",
                                      !.proc = "alive", !.ptmx = "open"]
                   ELSE [shell EXCEPT !.loop = "returned", !.conn = "closed"]
    /\ UNCHANGED shellRest

\* The shell prints something: a chunk is ready to be read from the pty.
ShellProcOutput ==
    /\ shell.proc = "alive"
    /\ shell.produced < MaxShellChunks
    /\ shell' = [shell EXCEPT !.avail = @ + 1, !.produced = @ + 1]
    /\ UNCHANGED shellRest

\* The shell ends: on something the client typed, or on the hangup it gets
\* when the pty is closed.
ShellProcExit ==
    /\ shell.proc = "alive"
    /\ shell.nIn > 0 \/ shell.ptmx = "closed"
    /\ shell' = [shell EXCEPT !.proc = "exited"]
    /\ UNCHANGED shellRest

\* The output goroutine, n, err := ptmx.Read(buf): a chunk is read and the
\* goroutine enters conn.WriteMessage(websocket.BinaryMessage, buf[:n]), at
\* that moment possibly next to the read loop's write; with the shell gone
\* or the pty closed the read fails, the loop breaks and the deferred
\* conn.Close() runs.
ShellOutRead ==
    /\ shell.fault # "panic"
    /\ shell.out = "read"
    /\ IF shell.ptmx = "open" /\ shell.avail > 0
       THEN \E f \in IF shell.loop = "pong" THEN WriteRaceOutcomes ELSE {shell.fault} :
               shell' = [shell EXCEPT !.out = "write", !.avail = @ - 1, !.fault = f]
       ELSE /\ shell.ptmx = "closed" \/ shell.proc = "exited"
            /\ shell' = [shell EXCEPT !.out = "done", !.conn = "closed"]
    /\ UNCHANGED shellRest

\* The output goroutine's conn.WriteMessage returns: the frame is written, or
\* the write fails on a closed or broken connection, the loop breaks and the
\* deferred conn.Close() runs.
ShellOutWrite ==
    /\ shell.fault # "panic"
    /\ shell.out = "write"
    /\ shell' = IF shell.conn = "open" /\ shell.client = "connected"
                THEN [shell EXCEPT !.out = "read", !.frames = @ + 1]
                ELSE [shell EXCEPT !.out = "done", !.conn = "closed"]
    /\ UNCHANGED shellRest

\* case "ping": the read loop enters conn.WriteMessage(websocket.TextMessage,
\* respData), at that moment possibly next to the output goroutine's write.
ShellClientPing ==
    /\ shell.fault # "panic"
    /\ shell.loop = "read"
    /\ shell.client = "connected" /\ shell.conn = "open"
    /\ shell.nPing < MaxShellPings
    /\ \E f \in IF shell.out = "write" THEN WriteRaceOutcomes ELSE {shell.fault} :
          shell' = [shell EXCEPT !.loop = "pong", !.nPing = @ + 1, !.fault = f]
    /\ UNCHANGED shellRest

\* The pong reply's conn.WriteMessage returns (its error is ignored);
\* continue.
ShellPongWrite ==
    /\ shell.fault # "panic"
    /\ shell.loop = "pong"
    /\ shell' = [shell EXCEPT !.loop = "read",
                              !.pongs = IF shell.conn = "open" /\ shell.client = "connected"
                                        THEN @ + 1 ELSE @]
    /\ UNCHANGED shellRest

\* The kinds of client message that leave the read loop reading: "input" is
\* written to the pty, "resize" sets its size, "pong" and text that does not
\* decode are passed over.
ShellMessageKinds == {"input", "resize", "pong", "text"}

ShellClientMessage(kind) ==
    /\ shell.fault # "panic"
    /\ shell.loop = "read"
    /\ shell.client = "connected" /\ shell.conn = "open"
    /\ shell.nMsg < MaxShellMsgs
    /\ shell' = [shell EXCEPT !.nMsg = @ + 1,
                              !.nIn = IF kind = "input" THEN @ + 1 ELSE @]
    /\ UNCHANGED shellRest

\* The client goes away.
ShellClientGone ==
    /\ shell.client = "connected"
    /\ shell' = [shell EXCEPT !.client = "gone"]
    /\ UNCHANGED shellRest

\* conn.ReadMessage returns an error, the client being gone or the
\* connection closed: break, and the handler calls cmd.Wait().
ShellReadError ==
    /\ shell.fault # "panic"
    /\ shell.loop = "read"
    /\ shell.client = "gone" \/ shell.conn = "closed"
    /\ shell' = [shell EXCEPT !.loop = "wait"]
    /\ UNCHANGED shellRest

\* conn.SetReadDeadline(60 s), extended by pongs only: the read of a client
\* that is there but silent fails as well.
ShellReadDeadline ==
    /\ shell.fault # "panic"
    /\ shell.loop = "read"
    /\ shell.client = "connected" /\ shell.conn = "open"
    /\ shell' = [shell EXCEPT !.loop = "wait"]
    /\ UNCHANGED shellRest

\* cmd.Wait() returns once the shell has ended; the handler returns and its
\* deferred ptmx.Close() and conn.Close() run.
ShellWaitReturn ==
    /\ shell.fault # "panic"
    /\ shell.loop = "wait"
    /\ shell.proc = "exited"
    /\ shell' = [shell EXCEPT !.loop = "returned", !.ptmx = "closed", !.conn = "closed"]
    /\ UNCHANGED shellRest

\* The steps of the handler and of its output goroutine
ShellServerStep ==
    \/ ShellStart
    \/ ShellOutRead
    \/ ShellOutWrite
    \/ ShellPongWrite
    \/ ShellReadError
    \/ ShellWaitReturn

NextShell ==
    \/ ShellServerStep
    \/ ShellReadDeadline
    \/ ShellProcOutput
    \/ ShellProcExit
    \/ ShellClientPing
    \/ \E kind \in ShellMessageKinds : ShellClientMessage(kind)
    \/ ShellClientGone

InitShell == InitWith(Env({"linux"}, 0, 0, 0, 0, {}, {}, FALSE))

\* One shell session: the handler and its goroutine take the steps they can
\* take; the client and the shell process are free.
SpecShell ==
    /\ InitShell
    /\ [][NextShell]_vars
    /\ WF_vars(ShellStart) /\ WF_vars(ShellOutRead) /\ WF_vars(ShellOutWrite)
    /\ WF_vars(ShellPongWrite) /\ WF_vars(ShellReadError) /\ WF_vars(ShellWaitReturn)

(***************************************************************************)
(* Properties                                                              *)
(***************************************************************************)

IsPrefix(s, t) == Len(s) <= Len(t) /\ SubSeq(t, 1, Len(s)) = s

OfType(msgs, type) == SelectSeq(msgs, LAMBDA m : m.type = type)

\* The exit code a "completed" message is to carry: 0 on a clean exit, the
\* process's own code on a non-zero exit, -1 when the error carries no code.
TrueExitCode(r) ==
    IF r.err = "nil" THEN 0
    ELSE IF r.err = "ExitError" /\ r.code > 0 THEN r.code
    ELSE -1

\* C1: a bridge whose process was spawned and has exited emits exactly one
\* "completed" message, once its exit goroutine has run, with content
\* "Exit code: N" for the true exit code N; before that it has emitted none,
\* and handleIO does not return without it.
C1_ExactlyOneCompleted ==
    \A b \in Bridges :
        LET completed == OfType(emitted[b], "completed")
        IN  /\ Len(completed) <= 1
            /\ exitTask[b] # "done" => Len(completed) = 0
            /\ exitTask[b] = "done" =>
                  /\ proc[b] = "exited"
                  /\ Len(completed) = 1
                  /\ completed[1].content = <<"Exit code: ", TrueExitCode(waitErr[b])>>
            /\ bstate[b] = "returned" => exitTask[b] = "done"

\* C1 witness: a process that died without an exit code has been reported.
C1_Witness ==
    \E b \in Bridges :
        /\ exitTask[b] = "done"
        /\ waitErr[b].err = "other"
        /\ Len(OfType(emitted[b], "completed")) = 1

\* A target resolves outside the working directory when the working
\* directory's components are not a prefix of the resolved path's components.
OutsideWorkingDir(f) == ~HasPrefix(JoinPath(workingDir, f), workingDir)

InvalidTarget(f) ==
    \/ f = <<>>
    \/ OutsideWorkingDir(f)
    \/ JoinPath(workingDir, f) \notin FileSystem

\* C2: an "execute" whose target is empty, resolves outside the working
\* directory or does not exist yields exactly one "error" message and no
\* "completed" message, spawns no process and starts no forwarding goroutine.
C2_InvalidTargetRejected ==
    \A b \in Bridges :
        (bstate[b] \notin {"none", "starting"} /\ InvalidTarget(file[b])) =>
            /\ proc[b] = "none"
            /\ Len(OfType(emitted[b], "error")) = 1
            /\ Len(OfType(emitted[b], "completed")) = 0
            /\ exitTask[b] = "none" /\ inTask[b] = "none"
            /\ outTask[b] = "none" /\ errTask[b] = "none"

Lines(entries) == [i \in 1..Len(entries) |-> <<entries[i].id, NL>>]

InputIds(b) ==
    {line[1] : line \in Range(stdinLog[b] \o inputChan[b])}
        \cup {routed[b][i].id : i \in 1..Len(routed[b])}

\* C4: after a second "execute", inputs go to the second bridge's queue only
\* (the first holds nothing that arrived later), the "execute" leaves the first
\* process and its goroutines as they are, and while the first process lives
\* its stdout goroutine keeps running and can forward the next chunk.
C4_Supersede ==
    /\ [](nExec = 2 =>
            /\ currentInputChan = 2
            /\ \A i \in InputIds(1) : i <= execAt[2]
            /\ \A i \in InputIds(2) : i > execAt[2]
            /\ proc[1] = "alive" =>
                  /\ outTask[1] = "run"
                  /\ nOut[1] < env.chunks => ENABLED StdoutRead(1))
    /\ [][nExec' # nExec =>
            /\ proc'[1] = proc[1]
            /\ <<exitTask[1], inTask[1], outTask[1], inputChan[1], inputClosed[1]>>'
                 = <<exitTask[1], inTask[1], outTask[1], inputChan[1], inputClosed[1]>>]_vars

\* C4 witness: both bridges have been sent input, the first process is still
\* alive after the second "execute" and has had output forwarded.
C4_Witness ==
    /\ nExec = 2
    /\ proc[1] = "alive" /\ proc[2] = "alive"
    /\ routed[1] # <<>> /\ stdinLog[2] # <<>>
    /\ nOut[1] >= 1

StreamInOrder(msgs) ==
    \A i, j \in 1..Len(msgs) :
        (/\ i < j
         /\ msgs[i].type \in {"stdout", "stderr"}
         /\ msgs[i].type = msgs[j].type
         /\ msgs[i].b = msgs[j].b) => msgs[i].n < msgs[j].n

\* C5: the messages written to the connection are, in order, the first of the
\* messages enqueued, and the chunks of each stream of a bridge arrive in the
\* order they were read.
C5_DeliveryOrder ==
    /\ IsPrefix(delivered, enq)
    /\ StreamInOrder(delivered)

\* C5 witness: a stderr chunk was delivered between two stdout chunks.
C5_Witness ==
    \E i, j, k \in 1..Len(delivered) :
        /\ i < j /\ j < k
        /\ delivered[i].type = "stdout" /\ delivered[i].n = 1
        /\ delivered[j].type = "stderr"
        /\ delivered[k].type = "stdout" /\ delivered[k].n = 2

\* C6: SendMessage can be called in every state; a dropped message is never
\* queued or delivered; a call that finds the queue full leaves the queue as
\* it is.
C6_SendNeverBlocks ==
    /\ [](/\ nEnvSend < MaxEnvSends => ENABLED CallSendMessage
          /\ dropped \cap Range(delivered \o msgChan) = {})
    /\ [][(nEnvSend' # nEnvSend /\ Len(msgChan) = MsgChanCap) =>
              /\ msgChan' = msgChan
              /\ dropped' # dropped]_vars

\* C6 witness: a message was dropped at a full queue after Close, with the
\* sender gone.
C6_Witness ==
    /\ dropped # {}
    /\ Len(msgChan) = MsgChanCap
    /\ done
    /\ sender = "exited"
    /\ delivered # <<>>

\* C7: a second Close() does not fail.
C7_CloseIdempotent == closeCalls >= 2 => ~closeFault

\* C8: three failures in a row, each within the window of the one before,
\* block the identity for a minute from the third; one or two do not block.
C8_ThreeFailuresBlock ==
    \A id \in Identities :
        /\ (streak[id].close /\ streak[id].n = 3 /\ now - attempts[id].LastAttempt < Minute) =>
              /\ IsBlocked(id)[1]
              /\ IsBlocked(id)[2] > 0 /\ IsBlocked(id)[2] <= Minute
              /\ now = attempts[id].LastAttempt => IsBlocked(id)[2] = Minute
        /\ (streak[id].close /\ streak[id].n \in {1, 2}) => ~IsBlocked(id)[1]

\* C8 witness: half a minute after a third failure in a row.
C8_Witness ==
    \E id \in Identities :
        /\ streak[id].close /\ streak[id].n = 3
        /\ now = attempts[id].LastAttempt + 1

\* C9: a failure more than 15 minutes after the identity's last one sets the
\* count to 1, leaves the lockout expiry as it was and reports no lockout.
C9_ResetAfterWindow ==
    [][\A id \in Identities :
          (/\ rlRet'.call = rlRet.call + 1
           /\ rlRet'.id = id
           /\ attempts[id] # NoRecord
           /\ now - attempts[id].LastAttempt > Window) =>
              /\ attempts'[id].Count = 1
              /\ attempts'[id].LockedUntil = attempts[id].LockedUntil
              /\ ~rlRet'.locked /\ rlRet'.duration = 0]_vars

\* C9 witness: an identity that had been locked out is back at count 1.
C9_Witness ==
    \E id \in Identities :
        /\ attempts[id] # NoRecord
        /\ attempts[id].Count = 1
        /\ streak[id].n >= 4
        /\ attempts[id].LockedUntil # ZeroTime
        /\ rlRet.id = id /\ ~rlRet.locked

\* The curve of the claim
StepDuration(count) ==
    CASE count \in 1..2 -> 0
      [] count \in 3..5 -> Minute
      [] count \in 6..9 -> 10 * Minute
      [] OTHER -> Hour

\* C10: the lockout of a count is none for 1-2, 1 minute for 3-5, 10 minutes
\* for 6-9 and 1 hour from 10 on, never shorter for a larger count; a record
\* with a lockout applied expires at the time of the call plus that duration,
\* and the call returns it.
C10_StepFunction ==
    /\ \A c \in 1..MaxCalls : lockDuration(c) <= lockDuration(c + 1)
    /\ \A id \in Identities :
          attempts[id] # NoRecord =>
              /\ attempts[id].Count >= 1
              /\ attempts[id].Count >= 3 =>
                    attempts[id].LockedUntil =
                        attempts[id].LastAttempt + StepDuration(attempts[id].Count)
    /\ (rlRet.call > 0 /\ attempts[rlRet.id] # NoRecord) =>
          /\ rlRet.duration = StepDuration(attempts[rlRet.id].Count)
          /\ rlRet.locked <=> attempts[rlRet.id].Count >= 3

\* C10 witness: a tenth failure in a row locked the identity for an hour.
C10_Witness ==
    \E id \in Identities :
        /\ attempts[id] # NoRecord
        /\ attempts[id].Count >= 10
        /\ attempts[id].LockedUntil = attempts[id].LastAttempt + Hour
        /\ rlRet.duration = Hour

\* C11: a call of IsBlocked leaves the map of attempt records as it was, and
\* returns true exactly when the identity has a record and the time is before
\* its lockout expiry, with the time left until then.
C11_IsBlockedReadOnly ==
    [][rlQuery'.call # rlQuery.call =>
          LET id == rlQuery'.id
          IN  /\ attempts' = attempts
              /\ rlQuery'.blocked <=>
                    (attempts[id] # NoRecord /\ now < attempts[id].LockedUntil)
              /\ rlQuery'.blocked => rlQuery'.remaining = attempts[id].LockedUntil - now
              /\ ~rlQuery'.blocked => rlQuery'.remaining = 0]_vars

\* C11 witness: IsBlocked has answered "blocked" for one identity, then "not
\* blocked" for an identity whose record is still there, its lockout over.
C11_Witness ==
    /\ rlQuery.call = 2
    /\ ~rlQuery.blocked
    /\ rlOp.op = "IsBlocked"
    /\ attempts[rlQuery.id] # NoRecord
    /\ attempts[rlQuery.id].Count >= 3
    /\ now >= attempts[rlQuery.id].LockedUntil

\* C12: RecordSuccessfulLogin removes the identity's record and no other;
\* right after it IsBlocked is false for the identity, and a failure of an
\* identity without a record is counted as attempt 1.
C12_SuccessClearsOnlyOwn ==
    /\ [][(rlOp'.op = "RecordSuccessfulLogin" /\ attempts' # attempts) =>
              \A id \in Identities : rlOp'.id = id =>
                  /\ attempts'[id] = NoRecord
                  /\ \A o \in Identities \ {id} : attempts'[o] = attempts[o]
                  /\ ~(IsBlocked(id)[1])']_vars
    /\ [][(rlRet'.call # rlRet.call /\ attempts[rlRet'.id] = NoRecord) =>
              /\ attempts'[rlRet'.id].Count = 1
              /\ ~rlRet'.locked]_vars

\* C12 witness: an identity has just logged in successfully and has no
\* record, while the other identity is still locked out.
C12_Witness ==
    \E id \in Identities :
        /\ rlOp = [op |-> "RecordSuccessfulLogin", id |-> id]
        /\ attempts[id] = NoRecord
        /\ \E o \in Identities \ {id} :
              /\ attempts[o] # NoRecord
              /\ attempts[o].Count = 3
              /\ IsBlocked(o)[1]

\* The token of caller c's call had been handed out and had not expired when
\* the call looked it up
Unexpired(c) ==
    /\ vcall[c].token \in 1..nTokens
    /\ vcall[c].at <= createdAt[vcall[c].token] + SessionTTL

\* The token of caller c's call had been handed out and had expired when the
\* call looked it up
Expired(c) ==
    /\ vcall[c].token \in 1..nTokens
    /\ vcall[c].at > createdAt[vcall[c].token] + SessionTTL

\* C13: a ValidateSession call on a token CreateSession returned, made up to
\* its expiry, ends by returning true, whatever other calls run beside it; a
\* call on a token that was never created returns false.
C13_CreatedTokenAccepted ==
    \A c \in Callers :
        /\ (vcall[c].pc \in {"returned", "fatal"} /\ Unexpired(c)) =>
              (vcall[c].pc = "returned" /\ vcall[c].ret)
        /\ (vcall[c].pc = "returned" /\ vcall[c].token = ForgedToken) => ~vcall[c].ret

\* C14: a ValidateSession call on a token past its expiry ends by returning
\* false with the entry removed from the map, and the entry stays removed.
C14_ExpiredTokenEvicted ==
    \A c \in Callers :
        (vcall[c].pc \in {"returned", "fatal"} /\ Expired(c)) =>
            /\ vcall[c].pc = "returned"
            /\ ~vcall[c].ret
            /\ vcall[c].token \notin DOMAIN sessions

\* C15: a ValidateSession call made for a token after its holder has logged
\* out returns false.
C15_LogoutInvalidates ==
    \A c \in Callers :
        (vcall[c].pc = "returned" /\ vcall[c].lo) => ~vcall[c].ret

\* C16: with authentication enabled, a request to a wrapped route runs the
\* wrapped handler if ValidateSession accepted its cookie, and is redirected
\* to the login page without running it otherwise.
C16_WrappedNeedsSession ==
    (authRet.n > 0 /\ authRet.enabled) =>
        IF authRet.accepted
        THEN authRet.ran # "none" /\ ~authRet.redirected
        ELSE authRet.ran = "none" /\ authRet.redirected

\* C17: handling a message that fails to decode leaves the read loop reading
\* and the connection open.
C17_MalformedIgnored ==
    [][nBad' # nBad =>
          /\ handler' = "reading"
          /\ done' = done
          /\ connClosed' = connClosed]_vars

\* What a keep-alive message is to leave alone: the current input queue
\* reference and every bridge
BridgeFrame ==
    <<currentInputChan, file, bstate, inputChan, inputClosed, proc, waitErr,
      exitTask, inTask, outTask, errTask, nOut, nErr, stdinLog, stdinClosed,
      emitted, routed>>

\* C20 as stated: a "ping" enqueues exactly one "pong", a "pong" enqueues
\* nothing, and both leave the current input queue and the bridges alone.
C20_PingEnqueuesPong ==
    /\ [][nPing' # nPing =>
              /\ msgChan' = Append(msgChan, Msg("pong", 0, nPing', <<>>))
              /\ BridgeFrame' = BridgeFrame]_vars
    /\ [][nPong' # nPong =>
              /\ msgChan' = msgChan
              /\ BridgeFrame' = BridgeFrame]_vars

\* C20 amended: a "ping" passes exactly one "pong" to SendMessage, which
\* enqueues it when the outbound queue has room and drops it when the queue
\* is full; a "pong" enqueues nothing; both leave the current input queue and
\* the bridges alone.
C20_PingSendsPong ==
    /\ [][nPing' # nPing =>
              LET pong == Msg("pong", 0, nPing', <<>>)
              IN  /\ IF Len(msgChan) < MsgChanCap
                     THEN /\ msgChan' = Append(msgChan, pong)
                          /\ enq' = Append(enq, pong)
                          /\ dropped' = dropped
                     ELSE /\ msgChan' = msgChan
                          /\ enq' = enq
                          /\ dropped' = dropped \cup {pong}
                  /\ delivered' = delivered
                  /\ BridgeFrame' = BridgeFrame]_vars
    /\ [][nPong' # nPong =>
              /\ <<msgChan, enq, dropped, delivered>>' = <<msgChan, enq, dropped, delivered>>
              /\ BridgeFrame' = BridgeFrame]_vars

\* C20 witness: a "ping" and a "pong" were handled while a bridge with queued
\* input was current, and the "pong" reply was dropped at a full queue.
C20_Witness ==
    /\ nPing = 1 /\ nPong = 1
    /\ \E m \in dropped : m.type = "pong"
    /\ currentInputChan = 1
    /\ proc[1] = "alive"
    /\ inputChan[1] # <<>>

\* C19: the step that ends the read loop and closes the connection leaves
\* every bridge's process and goroutines as they are; once the connection is
\* closed nothing more is delivered, no Close has faulted, and each bridge
\* goroutine that has a message to send (a chunk read, the exit of the
\* process) can take its step.
C19_TeardownAbandonsBridges ==
    /\ [][handler' # handler =>
              <<proc, exitTask, inTask, outTask, errTask, bstate>>'
                  = <<proc, exitTask, inTask, outTask, errTask, bstate>>]_vars
    /\ [][connClosed => delivered' = delivered]_vars
    /\ [](connClosed =>
            /\ ~closeFault
            /\ \A b \in Bridges :
                  /\ (exitTask[b] = "run" /\ proc[b] = "exited") =>
                        ENABLED ExitSupervision(b)
                  /\ (outTask[b] = "run" /\ nOut[b] < env.chunks) =>
                        ENABLED StdoutRead(b)
                  /\ (errTask[b] = "run" /\ nErr[b] < env.chunks) =>
                        ENABLED StderrRead(b))

\* C19 witness: the connection is closed and the delivery task gone; the
\* process has printed all its output and exited, its "completed" message was
\* queued or dropped, and nothing was ever delivered.
C19_Witness ==
    /\ handler = "closed" /\ connClosed /\ sender = "exited"
    /\ delivered = <<>>
    /\ exitTask[1] = "done"
    /\ nOut[1] = MaxChunks
    /\ \E m \in dropped \cup Range(msgChan) : m.type = "completed"

\* Bridge b has run to completion: its process has exited, its "completed"
\* message was emitted, its goroutines have ended and handleIO has returned
Completed(b) ==
    /\ proc[b] = "exited"
    /\ Len(OfType(emitted[b], "completed")) = 1
    /\ exitTask[b] = "done" /\ inTask[b] = "done" /\ outTask[b] = "done"
    /\ bstate[b] = "returned"

\* C18 as stated: a superseded bridge whose process runs reaches completion,
\* process exit included, and its stdin is not closed while the process runs.
C18_SupersededCompletes ==
    /\ (nExec = 2 /\ proc[1] = "alive") ~> Completed(1)
    /\ [](proc[1] = "alive" => ~stdinClosed[1])

\* C18 amended: a superseded bridge whose process exits reaches completion;
\* its stdin is not closed while the process runs.
C18_SupersededCompletesOnExit ==
    /\ (nExec = 2 /\ proc[1] = "exited") ~> Completed(1)
    /\ [](proc[1] = "alive" => ~stdinClosed[1])

\* C18 witness: the first bridge has completed without ever being sent
\* input, while the second bridge's process runs and has been sent input.
C18_Witness ==
    /\ nExec = 2
    /\ Completed(1)
    /\ routed[1] = <<>>
    /\ proc[2] = "alive"
    /\ routed[2] # <<>>

\* The messages bridge b has passed to SendMessage, queued or dropped
Sent(b) == {m \in Range(enq) \cup dropped : m.b = b}

\* C21: no bridge emits both an "error" and a "completed" message; a bridge
\* that failed to start has emitted one "error" and nothing else, and has no
\* process and no goroutine; a bridge that reached Running emits only
\* "stdout", "stderr" and "completed" messages, also after a read or a write
\* on its streams has failed.
C21_ErrorOrCompleted ==
    \A b \in Bridges :
        /\ ~(\E m, k \in Sent(b) : m.type = "error" /\ k.type = "completed")
        /\ bstate[b] = "failed" =>
              /\ Len(emitted[b]) = 1
              /\ emitted[b][1].type = "error"
              /\ Sent(b) = {emitted[b][1]}
              /\ proc[b] = "none"
              /\ exitTask[b] = "none" /\ inTask[b] = "none"
              /\ outTask[b] = "none" /\ errTask[b] = "none"
        /\ bstate[b] \in {"running", "returned"} =>
              /\ \A m \in Sent(b) : m.type \in {"stdout", "stderr", "completed"}
              /\ OfType(emitted[b], "error") = <<>>

\* C21 witness: a write to the stdin of a process that had ended failed, the
\* input goroutine is gone before the input queue was closed, and the bridge
\* has forwarded output.
C21_Witness ==
    \E b \in Bridges :
        /\ bstate[b] = "running"
        /\ proc[b] = "exited"
        /\ inTask[b] = "done" /\ ~inputClosed[b]
        /\ \E m \in Sent(b) : m.type = "stdout"

\* Every goroutine of handleIO for bridge b has ended
TasksDone(b) ==
    /\ exitTask[b] = "done" /\ inTask[b] = "done" /\ outTask[b] = "done"
    /\ errTask[b] \in {"none", "done"}

\* C22: a descriptor of a bridge (its stdin or pty, its output pipes) is
\* closed only once every goroutine of the bridge has ended, so that none of
\* them reads or writes a closed descriptor.
C22_ClosedAfterTasks ==
    \A b \in Bridges : (stdinClosed[b] \/ StreamClosed(b)) => TasksDone(b)

\* C23 as stated: the input goroutine takes a string from the input queue to
\* write it to stdin only while the process is alive, and the input queue of
\* a started bridge is closed only after its "completed" message was emitted.
C23_NoWriteAfterExit ==
    /\ [][\A b \in Bridges :
              (inputChan[b] # <<>> /\ inputChan'[b] = Tail(inputChan[b])) =>
                  proc[b] = "alive"]_vars
    /\ [](\A b \in Bridges :
              (inputClosed[b] /\ bstate[b] \in {"running", "returned"}) =>
                  Len(OfType(emitted[b], "completed")) = 1)

\* C23 amended: the input queue of a started bridge is closed only after its
\* process has exited and its "completed" message was emitted, and takes no
\* string once closed; the input goroutine writes the queued strings in the
\* order they were queued, and goes on writing what is queued after the
\* process has exited, until a write fails or the closed queue is empty.
C23_QueueClosedAfterCompleted ==
    /\ [](\A b \in Bridges :
              /\ (inputClosed[b] /\ bstate[b] \in {"running", "returned"}) =>
                    /\ proc[b] = "exited"
                    /\ Len(OfType(emitted[b], "completed")) = 1
              /\ IsPrefix(stdinLog[b], Lines(SelectSeq(routed[b], LAMBDA e : e.kept)))
              /\ (inTask[b] = "run" /\ inputChan[b] # <<>>) => ENABLED InputForward(b)
              /\ (inTask[b] = "done" /\ inputChan[b] # <<>>) => proc[b] = "exited")
    /\ [][\A b \in Bridges :
              /\ stdinLog'[b] # stdinLog[b] =>
                    /\ inputChan[b] # <<>>
                    /\ stdinLog'[b] = Append(stdinLog[b], Head(inputChan[b]))
                    /\ inputChan'[b] = Tail(inputChan[b])
              /\ inputClosed[b] => Len(inputChan'[b]) <= Len(inputChan[b])]_vars

\* C23 witness: an input that arrived after the process had exited has been
\* written to its stdin.
C23_Witness ==
    \E b \in Bridges :
        /\ proc[b] = "exited"
        /\ \E i \in 1..Len(routed[b]) :
              /\ routed[b][i].kept /\ ~routed[b][i].alive
              /\ <<routed[b][i].id, NL>> \in Range(stdinLog[b])

\* C24: once the process of a started bridge has exited, every goroutine of
\* the bridge ends and handleIO returns.
C24_DrainsAfterExit ==
    \A b \in Bridges :
        proc[b] = "exited" ~> (TasksDone(b) /\ bstate[b] = "returned")

\* C24 witness: handleIO has returned for a bridge whose process exited with
\* input still queued; the connection was closed before.
C24_Witness ==
    \E b \in Bridges :
        /\ bstate[b] = "returned" /\ TasksDone(b)
        /\ handler = "closed"
        /\ \E i \in 1..Len(routed[b]) : routed[b][i].kept /\ ~routed[b][i].alive

\* C25: a bridge whose target resolves outside the working directory, judged
\* by path components, never has a process: its start fails with an "error"
\* message.
C25_OutsideNeverSpawned ==
    \A b \in Bridges :
        (bstate[b] \notin {"none", "starting"} /\ OutsideWorkingDir(file[b])) =>
            /\ bstate[b] = "failed"
            /\ proc[b] = "none"
            /\ \E m \in Sent(b) : m.type = "error"

\* C26: a handleLogin request for which IsBlocked reports the identity as
\* blocked is served the blocked page in that step, with no password compared
\* and no session created, and leaves the attempt records and the sessions as
\* they were, whether its password is correct or not.
C26_BlockedLoginRejected ==
    /\ [](\A c \in Callers : login[c].blocked =>
              /\ login[c].pc = "served"
              /\ login[c].response = "blocked"
              /\ ~login[c].compared
              /\ login[c].token = 0)
    /\ [][\A c \in Callers, id \in Identities :
              (login'[c] # login[c] /\ login[c].pc # "passed" /\ login'[c].id = id) =>
                  /\ login'[c].blocked = IsBlocked(id)[1]
                  /\ <<attempts, sessions, nTokens, createdAt>>'
                        = <<attempts, sessions, nTokens, createdAt>>]_vars

\* C26 witness: a blocked identity has sent the correct password and was
\* served the blocked page; its record still counts three failures.
C26_Witness ==
    \E c \in Callers :
        /\ login[c].pc = "served"
        /\ login[c].blocked /\ login[c].correct
        /\ login[c].response = "blocked"
        /\ attempts[login[c].id] # NoRecord
        /\ attempts[login[c].id].Count = 3
        /\ nTokens = 0

\* C27: a read that fails ends the read loop for good, and Close has run
\* once, without a fault, exactly when the read loop has ended, however many
\* bridges the connection has started.
C27_CloseExactlyOnce ==
    /\ [](/\ closeCalls = (IF handler = "reading" THEN 0 ELSE 1)
          /\ ~closeFault
          /\ handler # "reading" => done /\ connClosed)
    /\ [][/\ nBad' # nBad => handler' = "closed"
          /\ handler # "reading" => handler' = handler
          /\ closeCalls' # closeCalls => handler' # handler]_vars

\* C27 witness: the read loop has ended on a read error after two bridges
\* were started, one of which has run to its end and one still runs.
C27_Witness ==
    /\ handler = "closed"
    /\ closeCalls = 1
    /\ nExec = 2
    /\ bstate[1] = "returned"
    /\ proc[2] = "alive"

\* C28: once Close has been called the messageSender goroutine ends, and a
\* message passed to SendMessage after that is never written to the client.
C28_CloseStopsDelivery ==
    /\ closeCalls >= 1 ~> sender = "exited"
    /\ \A n \in 1..MaxEnvSends :
          []((closeCalls >= 1 /\ nEnvSend < n) =>
                [](\A i \in 1..Len(delivered) : delivered[i].n # n))

\* C28 witness: nothing was delivered, the sender took one message after
\* Close and ended, and a message enqueued after that is left in the queue.
C28_Witness ==
    /\ closeCalls >= 1
    /\ sender = "exited"
    /\ delivered = <<>>
    /\ Len(enq) = MsgChanCap + 1
    /\ msgChan # <<>>

\* C29: a step of CleanupExpiredSessions removes the sessions whose expiry is
\* before the time of the sweep and no other, and leaves the others as they
\* were: every token ValidateSession would accept before the sweep, it
\* accepts after it.
C29_SweepRemovesExpiredOnly ==
    [][CleanupExpiredSessions =>
          /\ DOMAIN sessions' = {t \in DOMAIN sessions : ~(sessions[t] < now)}
          /\ \A t \in DOMAIN sessions' : sessions'[t] = sessions[t]
          /\ \A t \in Presentable :
                sessionLookup(t) = "valid" => (sessionLookup(t) = "valid")']_vars

\* C29 witness: with no ValidateSession call ever made, the first session is
\* gone and the second, which expires at this very moment, is still there.
C29_Witness ==
    /\ nValidate = 0
    /\ nTokens = 2
    /\ 1 \notin DOMAIN sessions
    /\ 2 \in DOMAIN sessions
    /\ sessions[2] = now

\* C30: a step of CleanupOldRecords deletes a record only if its last attempt
\* is more than an hour old and its lockout expiry has passed, and leaves
\* every other record as it was; an identity that is blocked before the sweep
\* is blocked after it.
C30_SweepKeepsLocked ==
    [][(rlOp'.op = "CleanupOldRecords" /\ now' = now) =>
          \A id \in Identities :
              /\ attempts'[id] \in {attempts[id], NoRecord}
              /\ attempts'[id] # attempts[id] =>
                    /\ now - attempts[id].LastAttempt > Hour
                    /\ attempts[id].LockedUntil < now
              /\ IsBlocked(id)[1] =>
                    /\ attempts'[id] = attempts[id]
                    /\ (IsBlocked(id)[1])']_vars

\* C30 witness: the last thing the rate limiter did was a sweep, and the
\* identity, locked for ten minutes or more some time before, is still
\* blocked.
C30_Witness ==
    \E id \in Identities :
        /\ rlOp.op = "CleanupOldRecords"
        /\ attempts[id] # NoRecord
        /\ attempts[id].Count >= 6
        /\ now > attempts[id].LastAttempt
        /\ IsBlocked(id)[1]

\* C31: the read loop never faults on an "input" message: it never sends on
\* an input queue that has been closed, whether the queue was closed after
\* the process exited or by a start that failed on its target.
C31_NoSendOnClosedQueue == handler # "panicked"

\* C32: the session map is written only under the exclusive lock: while a
\* goroutine is inside delete, no other goroutine holds the lock in any
\* mode, and the runtime never finds the map accessed without
\* synchronisation.
C32_WritesUnderExclusiveLock ==
    /\ ~Stopped
    /\ \A c \in Callers : vcall[c].pc = "deleting" => Readers = {c}

\* C33: in the order the messages are enqueued, no "stdout" or "stderr"
\* message of a bridge comes after the "completed" message of that bridge.
C33_CompletedAfterOutput ==
    \A i, j \in 1..Len(enq) :
        (i < j /\ enq[i].type = "completed" /\ enq[i].b = enq[j].b) =>
            enq[j].type \notin {"stdout", "stderr"}

\* The "completed" and "error" messages bridge b has emitted
Final(b) == {m \in Range(emitted[b]) : m.type \in {"completed", "error"}}

\* C34 as stated: on a connection that stays open and is read, the
\* "completed" or "error" message a bridge emits is delivered in the end, and
\* is never dropped at a full outbound queue.
C34_FinalMessageDelivered ==
    /\ \A b \in Bridges :
          bstate[b] \in {"failed", "returned"} ~>
              (connClosed \/ Final(b) \subseteq Range(delivered))
    /\ [](\A m \in dropped : m.type \notin {"completed", "error"})

\* C34 amended: the "completed" or "error" message of a bridge is passed to
\* SendMessage once; it is dropped exactly if the outbound queue is full at
\* that moment, and otherwise it is enqueued and, on a connection that stays
\* open and is read, delivered in the end.
C34_FinalMessageDeliveredIfRoom ==
    /\ \A b \in Bridges :
          bstate[b] \in {"failed", "returned"} ~>
              (connClosed \/ (Final(b) \cap Range(enq)) \subseteq Range(delivered))
    /\ [](\A b \in Bridges :
              /\ Final(b) \subseteq (Range(enq) \cup dropped)
              /\ bstate[b] \in {"failed", "returned"} => Cardinality(Final(b)) = 1)
    /\ [][\A b \in Bridges : \A m \in Final(b)' \ Final(b) :
              IF Len(msgChan) < MsgChanCap
              THEN msgChan' = Append(msgChan, m) /\ dropped' = dropped
              ELSE msgChan' = msgChan /\ dropped' = dropped \cup {m}]_vars

\* C34 witness: both bridges have run to their end; the "completed" message
\* of one was dropped at a queue full of output, that of the other delivered.
C34_Witness ==
    /\ ~connClosed
    /\ bstate[1] = "returned" /\ bstate[2] = "returned"
    /\ \E m \in dropped : m.type = "completed"
    /\ \E i \in 1..Len(delivered) : delivered[i].type = "completed"
    /\ msgChan = <<>>


\* A step of bridge b that executes close(inputChan): the return of
\* executePythonScript on a failed target check, or the exit goroutine's
\* deferred close.
ClosesInputChan(b) ==
    \/ bstate[b] = "starting" /\ bstate'[b] = "failed" /\ StartError(file[b]) # ""
    \/ exitTask[b] = "run" /\ exitTask'[b] = "done"

\* C35: every input queue created for an "execute" request is closed exactly
\* once, on a start failure or after the process exits, never twice, on every
\* path including a failure to spawn the process.
C35_ClosedExactlyOnce ==
    /\ [](\A b \in Bridges :
             (bstate[b] = "failed" \/ exitTask[b] = "done") => inputClosed[b])
    /\ [][\A b \in Bridges : ClosesInputChan(b) => ~inputClosed[b]]_vars

\* C35 (amended): an input queue is closed at most once: by the failed target
\* check or by the exit goroutine, at a moment when it is open, and it is
\* closed from then on; a bridge whose process failed to spawn leaves its
\* queue open for good.
C35_ClosedAtMostOnce ==
    /\ [](\A b \in Bridges :
             inputClosed[b] <=>
                 \/ bstate[b] = "failed" /\ StartError(file[b]) # ""
                 \/ exitTask[b] = "done")
    /\ [][\A b \in Bridges :
             /\ ClosesInputChan(b) => ~inputClosed[b] /\ inputClosed'[b]
             /\ inputClosed[b] => inputClosed'[b]]_vars

\* A bridge whose process failed to spawn, its queue open after an input was
\* offered to it.
C35_Witness ==
    \E b \in Bridges :
        /\ bstate[b] = "failed"
        /\ StartError(file[b]) = ""
        /\ ~inputClosed[b]
        /\ nInput > 0
        /\ handler = "reading"

\* C36: handling an "input" message never stops the read loop: whatever the
\* state of the current input queue (full, abandoned by its forwarder, of a
\* bridge that failed to spawn), the handler is back at reading the next
\* client message once the input is handled.
C36_InputKeepsLoopReading ==
    [][nInput' # nInput => handler' = "reading"]_vars

\* C37: for a given identity, a call of RecordFailedAttempt never sets the
\* stored lockout expiry to a time earlier than the expiry already stored,
\* whatever the sequence and timing of the calls.
C37_LockedUntilNeverEarlier ==
    [][\A id \in Identities :
          (rlRet'.call # rlRet.call /\ rlRet'.id = id /\ attempts[id] # NoRecord) =>
              attempts'[id].LockedUntil >= attempts[id].LockedUntil]_vars

\* C38: under concurrent login requests of one identity, handleLogin never
\* creates a session at a moment when that identity is locked out: the
\* IsBlocked check and the password check / attempt recording act as one
\* atomic step with respect to other requests.
C38_NoSessionWhileLocked ==
    [][\A c \in Callers :
          (login[c].token = 0 /\ login'[c].token # 0) =>
              ~IsBlocked(login[c].id)[1]]_vars

\* C39: in the shell session at most one task writes a data frame to the
\* websocket connection at any time: the pty-output goroutine and the read
\* loop's "pong" reply are never inside conn.WriteMessage together.
C39_OneWriterAtATime ==
    /\ ~(shell.out = "write" /\ shell.loop = "pong")
    /\ shell.fault = "none"

\* C40: when the shell client disconnects while the shell process is still
\* running, shellWebsocketHandler eventually returns and the pty is closed
\* (a session stopped by a panic of overlapping writes set aside).
C40_HandlerReturnsAfterDisconnect ==
    (shell.client = "gone" /\ shell.proc = "alive") ~>
        \/ shell.loop = "returned" /\ shell.ptmx = "closed"
        \/ shell.fault = "panic"
=============================================================================
